---- MODULE Spec2Model ----
(***************************************************************************)
(* vite-svg-to-ico: the ICO codec (src/src/ico.ts), the favicon serving    *)
(* state machine of the serve plugin and the build-phase emission          *)
(* (src/src/index.ts, lines 87-533).                                       *)
(*                                                                         *)
(* Byte buffers are sequences of integers 0..255.  An optional value       *)
(* (Buffer | null, SizedPng[] | null) is a sequence of length 0 or 1.      *)
(* Every async handler is split at its await points: the part of a         *)
(* handler between two awaits is one action.                               *)
(***************************************************************************)
EXTENDS Integers, Sequences, FiniteSets, TLC

VARIABLES
    opts,           \* the resolved plugin options and the host command
    sourceFile,     \* content (a version number) of the input file on disk
    now,            \* the last reading of the millisecond clock, Date.now()
    generatedIco,   \* Buffer | null
    generatedPngs,  \* SizedPng[] | null
    cacheId,        \* the cache-bust token
    tasks,          \* the serve-phase handler invocations made so far
    sent,           \* messages passed to server.hot.send, in order
    build,          \* the build-phase buildStart invocation
    packIn,         \* argument of a direct packIco call
    packOut,        \* its result (optional)
    page,           \* what the last transformIndexHtml call returned (optional)
    tagsIn,         \* argument of a direct buildFaviconTags call (optional)
    tagsOut,        \* its result
    callIn,         \* argument of a direct call of another function or hook (optional)
    callOut,        \* what that call returned or threw (optional)
    gen             \* a direct call of generateSizedPngs and its encodes

vars == <<opts, sourceFile, now, generatedIco, generatedPngs, cacheId,
          tasks, sent, build, packIn, packOut, page, tagsIn, tagsOut,
          callIn, callOut, gen>>

serveVars == <<sourceFile, now, generatedIco, generatedPngs, cacheId, tasks, sent>>
packVars == <<packIn, packOut>>
htmlVars == <<page, tagsIn, tagsOut>>
fnVars == <<callIn, callOut, gen>>

----------------------------------------------------------------------------
(* Bounds *)

MaxTasks == 2       \* serve-phase handler invocations per behaviour
MaxChanges == 1     \* changes of the input file that no handler is told of
MaxTicks == 1       \* milliseconds that pass between the clock readings
MaxRasters == 3     \* length of the list handed to a direct packIco call

----------------------------------------------------------------------------
(* Optional values *)

None == <<>>
Some(x) == <<x>>
IsSome(o) == Len(o) > 0
Get(o) == o[1]

----------------------------------------------------------------------------
(* ICO codec: src/src/ico.ts *)

ICO_TYPE == 1
HEADER_SIZE == 6
ENTRY_SIZE == 16

\* Buffer.writeUInt8 / writeUInt16LE / writeUInt32LE
U8(n) == <<n % 256>>
U16LE(n) == <<n % 256, (n \div 256) % 256>>
U32LE(n) == <<n % 256, (n \div 256) % 256, (n \div 65536) % 256, (n \div 16777216) % 256>>

RECURSIVE ConcatBuffers_reversed(_)
\* the payloads concatenated last raster first
ConcatBuffers_reversed(pngs) ==
    IF pngs = <<>> THEN <<>>
    ELSE ConcatBuffers_reversed(Tail(pngs)) \o Head(pngs).buffer

RECURSIVE ConcatBuffers(_)
\* Buffer.concat over the payloads, pngs.map((p) => p.buffer)
ConcatBuffers(pngs) ==
    IF pngs = <<>> THEN <<>>
    ELSE Head(pngs).buffer \o ConcatBuffers(Tail(pngs))

\* the height byte left as Buffer.alloc zeroed it
IcoEntry_heightUnset(png, offset) ==
    U8(IF png.size >= 256 THEN 0 ELSE png.size)
    \o U8(0)
    \o U8(0)
    \o U8(0)
    \o U16LE(1)
    \o U16LE(32)
    \o U32LE(Len(png.buffer))
    \o U32LE(offset)

\* one ICONDIRENTRY, the body of the for loop of packIco
IcoEntry(png, offset) ==
    U8(IF png.size >= 256 THEN 0 ELSE png.size)
    \o U8(IF png.size >= 256 THEN 0 ELSE png.size)
    \o U8(0)
    \o U8(0)
    \o U16LE(1)
    \o U16LE(32)
    \o U32LE(Len(png.buffer))
    \o U32LE(offset)

RECURSIVE IcoEntries_fixedOffset(_, _)
\* the loop without `offset += png.buffer.length`
IcoEntries_fixedOffset(pngs, offset) ==
    IF pngs = <<>> THEN <<>>
    ELSE IcoEntry(Head(pngs), offset)
         \o IcoEntries_fixedOffset(Tail(pngs), offset)

RECURSIVE IcoEntries(_, _)
\* the for loop of packIco: offset runs over the payload positions
IcoEntries(pngs, offset) ==
    IF pngs = <<>> THEN <<>>
    ELSE IcoEntry(Head(pngs), offset)
         \o IcoEntries(Tail(pngs), offset + Len(Head(pngs).buffer))

\* the count written at offset 2 and the type at offset 4
IcoHeader_swapped(count) == U16LE(0) \o U16LE(count) \o U16LE(ICO_TYPE)

\* the ICONDIR header: reserved, type, image count
IcoHeader(count) == U16LE(0) \o U16LE(ICO_TYPE) \o U16LE(count)

\* the payload area taken to start after one directory entry
packIco_oneEntryOffset(pngs) ==
    LET count == Len(pngs)
        dataOffset == HEADER_SIZE + ENTRY_SIZE
    IN  IcoHeader(count) \o IcoEntries(pngs, dataOffset) \o ConcatBuffers(pngs)

\* header, entries, then the payloads in input order
packIco(pngs) ==
    LET count == Len(pngs)
        dataOffset == HEADER_SIZE + count * ENTRY_SIZE
    IN  IcoHeader(count) \o IcoEntries(pngs, dataOffset) \o ConcatBuffers(pngs)

----------------------------------------------------------------------------
(* Rasterization pipeline: generateSizedPngs, src/src/ico.ts *)

\* sharp(inputBuffer).resize(size, size, ..).png(..).toBuffer(): the PNG bytes
\* are a function of the input content and the size; larger rasters are longer
PngBytes(content, size) ==
    <<content % 256, size % 256>> \o (IF size > 128 THEN <<0>> ELSE <<>>)

\* the value generateSizedPngs resolves to: one raster per size, in order
SizedPngs(content, sizeList) ==
    [i \in 1..Len(sizeList) |->
        [size |-> sizeList[i], buffer |-> PngBytes(content, sizeList[i])]]

\* the bytes readFile returns for the input file
FileBytes(content) == <<content % 256>>

----------------------------------------------------------------------------
(* Plugin options after normalization: svgToIco, src/src/index.ts 92-153 *)

\* A raw option value that may be absent, a boolean or a string
Undefined == [type |-> "undefined", b |-> FALSE, s |-> ""]
Bool(b) == [type |-> "boolean", b |-> b, s |-> ""]
Str(str) == [type |-> "string", b |-> FALSE, s |-> str]
\* the dev option: a boolean, or a DevOptions object whose keys may be absent
DevBool(b) ==
    [type |-> "boolean", b |-> b, enabled |-> None, injection |-> Undefined, hmr |-> None]
DevObject(enabled, injection, hmr) ==
    [type |-> "object", b |-> FALSE, enabled |-> enabled, injection |-> injection, hmr |-> hmr]

\* the dev key left out
DevUndefined ==
    [type |-> "undefined", b |-> FALSE, enabled |-> None, injection |-> Undefined, hmr |-> None]
\* line 98: dev: rawDev = true
RawDevOf(dev) == IF dev.type = "undefined" THEN DevBool(TRUE) ELSE dev

\* lines 111-114: devOpts
DevOpts(rawDev) ==
    IF rawDev.type = "boolean"
    THEN [enabled |-> rawDev.b, injection |-> "transform", hmr |-> TRUE]
    ELSE [enabled |-> IF IsSome(rawDev.enabled) THEN Get(rawDev.enabled) ELSE TRUE,
          injection |-> IF rawDev.injection.type = "undefined" THEN "transform"
                        ELSE rawDev.injection.s,
          hmr |-> IF IsSome(rawDev.hmr) THEN Get(rawDev.hmr) ELSE TRUE]

\* lines 247-533: the plugins svgToIco returns, by name
PluginNames(devEnabled) ==
    <<"svg-to-ico:config">>
    \o (IF devEnabled THEN <<"svg-to-ico:serve">> ELSE <<>>)
    \o <<"svg-to-ico:build">>

\* opts of a plugin instance: the raw dev option and the devOpts it gives
WithDev(o, dev) ==
    [command |-> o.command, sizes |-> o.sizes, emitSizes |-> o.emitSizes,
     source |-> o.source, inject |-> o.inject, dev |-> dev,
     enabled |-> DevOpts(RawDevOf(dev)).enabled,
     injection |-> DevOpts(RawDevOf(dev)).injection,
     hmr |-> DevOpts(RawDevOf(dev)).hmr]

EMIT_SIZES_FORMATS == {"png", "ico", "both"}

SizeLists == {<<16>>, <<16, 256>>}

\* serve: emit.source does not reach the asset handlers; build: dev.hmr does
\* not; emit.inject and dev.injection reach the HTML hooks only
Options ==
    [command : {"serve"},
     sizes : {<<16, 256>>},
     emitSizes : EMIT_SIZES_FORMATS \cup {"false"},
     source : {FALSE},
     hmr : BOOLEAN,
     inject : {"false"},
     injection : {"transform"},
     enabled : {TRUE},
     dev : {DevUndefined}]
    \cup
    [command : {"build"},
     sizes : SizeLists,
     emitSizes : EMIT_SIZES_FORMATS \cup {"true", "false"},
     source : BOOLEAN,
     hmr : {TRUE},
     inject : {"false"},
     injection : {"transform"},
     enabled : {TRUE},
     dev : {DevUndefined}]

sizes == opts.sizes
\* the raw emit.sizes value taken as it is
emitSizesFormat_raw == opts.emitSizes
\* lines 136-140: opts.emitSizes is the raw emit.sizes (undefined being false);
\* true is normalised to 'png'
emitSizesFormat == IF opts.emitSizes = "true" THEN "png" ELSE opts.emitSizes
emitSizes == emitSizesFormat # "false"
emitPng == emitSizesFormat = "png" \/ emitSizesFormat = "both"
emitIco == emitSizesFormat = "ico" \/ emitSizesFormat = "both"
output == "favicon.ico"
outputStem == "favicon"
sourceName == "icon.svg"

\* the file names a change notification can carry; resolvedInput is the first
resolvedInput == "/root/src/icon.svg"
OtherFile == "/root/src/main.ts"
\* the input option as configured, relative to the project root
rawInput == "src/icon.svg"
Files == {resolvedInput, OtherFile}
\* the same with a notification that carries the configured string
ServeFiles == Files \cup {rawInput}

RECURSIVE ToString36(_)
\* Number.prototype.toString(36): the base-36 digits, most significant first
ToString36(n) ==
    IF n < 36 THEN <<n>> ELSE Append(ToString36(n \div 36), n % 36)

ClockStart == 35

----------------------------------------------------------------------------
(* Handler invocations of the serve plugin *)

NoResp == [status |-> "pending", ctype |-> "", cache |-> "", body |-> <<>>]
\* res.setHeader('Content-Type', ..); res.setHeader('Cache-Control', 'no-cache'); res.end(body)
Respond(ctype, body) == [status |-> "ok", ctype |-> ctype, cache |-> "no-cache", body |-> body]
\* next(e)
NextError == [status |-> "error", ctype |-> "", cache |-> "", body |-> <<>>]
\* next()
NextPass == [status |-> "next", ctype |-> "", cache |-> "", body |-> <<>>]
\* the promise a hook returns: fulfilled or rejected
Fulfilled == [status |-> "fulfilled", ctype |-> "", cache |-> "", body |-> <<>>]
Rejected == [status |-> "rejected", ctype |-> "", cache |-> "", body |-> <<>>]

\* Section 4.4 of the design: POPULATED = the combined ICO and, if per-size
\* emission is configured, the per-size list are present; EMPTY = none is
Populated == IsSome(generatedIco) /\ (emitSizes => IsSome(generatedPngs))
Empty == ~IsSome(generatedIco) /\ ~IsSome(generatedPngs)

\* One handler invocation.  pc: "reading" = inside generateSizedPngs awaiting
\* readFile, "encoding" = awaiting the Promise.all of the encodes, "done" =
\* returned.  ran: it called generateSizedPngs.  content: what readFile gave it.
\* pop0, tok0: whether the cache was populated, and the cacheId, when a
\* change notification was delivered (kept for notifications only).
NewTask(kind, size, file, pc, ran, resp) ==
    [kind |-> kind, size |-> size, file |-> file, pc |-> pc, ran |-> ran,
     content |-> 0,
     pop0 |-> IF kind = "hmr" THEN Populated ELSE FALSE,
     tok0 |-> IF kind = "hmr" THEN cacheId ELSE <<>>,
     resp |-> resp]

Running(t) == t.pc \in {"reading", "encoding"}
InFlight == {i \in 1..Len(tasks) : Running(tasks[i])}
Invocations == {i \in 1..Len(tasks) : tasks[i].ran}

\* the first raster of the list, whatever its size
Find_first(pngs, size) == IF pngs = <<>> THEN None ELSE Some(pngs[1])

\* generatedPngs.find((p) => p.size === size), as an optional value
Find(pngs, size) ==
    LET hits == {i \in 1..Len(pngs) : pngs[i].size = size}
    IN  IF hits = {} THEN None
        ELSE Some(pngs[CHOOSE i \in hits : \A j \in hits : i <= j])

\* the PNG response sent without the Cache-Control header
PngResponse_noCacheControl(pngs, size) ==
    LET png == Find(pngs, size)
    IN  IF ~IsSome(png) THEN NextPass
        ELSE [Respond("image/png", Get(png).buffer) EXCEPT !.cache = ""]

\* lines 349-356: the tail of the per-size PNG middleware
PngResponse(pngs, size) ==
    LET png == Find(pngs, size)
    IN  IF ~IsSome(png) THEN NextPass ELSE Respond("image/png", Get(png).buffer)

\* lines 368-375: the tail of the per-size ICO middleware
SizedIcoResponse(pngs, size) ==
    LET png == Find(pngs, size)
    IN  IF ~IsSome(png) THEN NextPass ELSE Respond("image/x-icon", packIco(<<Get(png)>>))

\* lines 305-308: the serve plugin is part of the list only with dev.enabled
ServePlugin == opts.command = "serve" /\ opts.enabled
CanInvoke == ServePlugin /\ Len(tasks) < MaxTasks

\* the main ICO middleware generating on every request
IcoMiddleware_alwaysGenerates ==
    /\ CanInvoke
    /\ tasks' = Append(tasks, NewTask("ico", 0, "", "reading", TRUE, NoResp))
    /\ UNCHANGED <<opts, sourceFile, now, generatedIco, generatedPngs, cacheId, sent, build, packVars, htmlVars, fnVars>>

\* lines 312-325, up to the await: the main ICO middleware is entered
IcoMiddleware ==
    /\ CanInvoke
    /\ IF ~IsSome(generatedIco)
       THEN tasks' = Append(tasks, NewTask("ico", 0, "", "reading", TRUE, NoResp))
       ELSE tasks' = Append(tasks, NewTask("ico", 0, "", "done", FALSE,
                                           Respond("image/x-icon", Get(generatedIco))))
    /\ UNCHANGED <<opts, sourceFile, now, generatedIco, generatedPngs, cacheId, sent, build, packVars, htmlVars, fnVars>>

\* the PNG middleware testing the combined ICO instead of the per-size list
PngMiddleware_testsIco(size) ==
    /\ CanInvoke
    /\ emitSizes /\ emitPng
    /\ IF ~IsSome(generatedIco)
       THEN tasks' = Append(tasks, NewTask("png", size, "", "reading", TRUE, NoResp))
       ELSE tasks' = Append(tasks, NewTask("png", size, "", "done", FALSE,
                                           PngResponse(Get(generatedPngs), size)))
    /\ UNCHANGED <<opts, sourceFile, now, generatedIco, generatedPngs, cacheId, sent, build, packVars, htmlVars, fnVars>>

\* lines 344-360, up to the await: the PNG middleware of one size is entered
PngMiddleware(size) ==
    /\ CanInvoke
    /\ emitSizes /\ emitPng
    /\ IF ~IsSome(generatedPngs)
       THEN tasks' = Append(tasks, NewTask("png", size, "", "reading", TRUE, NoResp))
       ELSE tasks' = Append(tasks, NewTask("png", size, "", "done", FALSE,
                                           PngResponse(Get(generatedPngs), size)))
    /\ UNCHANGED <<opts, sourceFile, now, generatedIco, generatedPngs, cacheId, sent, build, packVars, htmlVars, fnVars>>

\* lines 363-379, up to the await: the single-entry ICO middleware of one size
SizedIcoMiddleware(size) ==
    /\ CanInvoke
    /\ emitSizes /\ emitIco
    /\ IF ~IsSome(generatedPngs)
       THEN tasks' = Append(tasks, NewTask("sized-ico", size, "", "reading", TRUE, NoResp))
       ELSE tasks' = Append(tasks, NewTask("sized-ico", size, "", "done", FALSE,
                                           SizedIcoResponse(Get(generatedPngs), size)))
    /\ UNCHANGED <<opts, sourceFile, now, generatedIco, generatedPngs, cacheId, sent, build, packVars, htmlVars, fnVars>>

\* lines 430-433: the host calls the serve-phase buildStart, once, at server start
buildStart ==
    /\ CanInvoke
    /\ tasks = <<>>
    /\ tasks' = Append(tasks, NewTask("buildStart", 0, "", "reading", TRUE, NoResp))
    /\ UNCHANGED <<opts, sourceFile, now, generatedIco, generatedPngs, cacheId, sent, build, packVars, htmlVars, fnVars>>

\* the change handler regenerating for whatever file has changed
FileChange_anyFile(file) ==
    /\ opts.command = "serve"
    /\ (file = resolvedInput /\ ~(opts.enabled /\ opts.hmr)) => sourceFile < MaxChanges
    /\ sourceFile' = IF file = resolvedInput THEN sourceFile + 1 ELSE sourceFile
    /\ IF opts.enabled /\ opts.hmr
       THEN /\ Len(tasks) < MaxTasks
            /\ tasks' = Append(tasks, NewTask("hmr", 0, file, "reading", TRUE, NoResp))
       ELSE /\ file = resolvedInput
            /\ tasks' = tasks
    /\ UNCHANGED <<opts, now, generatedIco, generatedPngs, cacheId, sent, build, packVars, htmlVars, fnVars>>

\* A file changes on disk and the watcher reports it.  lines 441-446:
\* handleHotUpdate exists only with dev.hmr, and acts only on the input file
FileChange(file) ==
    /\ opts.command = "serve"
    /\ (file = resolvedInput /\ ~(opts.enabled /\ opts.hmr)) => sourceFile < MaxChanges
    /\ sourceFile' = IF file = resolvedInput THEN sourceFile + 1 ELSE sourceFile
    /\ IF opts.enabled /\ opts.hmr
       THEN /\ Len(tasks) < MaxTasks
            /\ IF file = resolvedInput
               THEN tasks' = Append(tasks, NewTask("hmr", 0, file, "reading", TRUE, NoResp))
               ELSE tasks' = Append(tasks, NewTask("hmr", 0, file, "done", FALSE, Fulfilled))
       ELSE /\ file = resolvedInput
            /\ tasks' = tasks
    /\ UNCHANGED <<opts, now, generatedIco, generatedPngs, cacheId, sent, build, packVars, htmlVars, fnVars>>

\* ico.ts, generateSizedPngs: await readFile(input) returns the current content
ReadFile(i) ==
    /\ i \in 1..Len(tasks)
    /\ tasks[i].pc = "reading"
    /\ tasks' = [tasks EXCEPT ![i].pc = "encoding", ![i].content = sourceFile]
    /\ UNCHANGED <<opts, sourceFile, now, generatedIco, generatedPngs, cacheId, sent, build, packVars, htmlVars, fnVars>>

\* the catch block remembering the failure as an empty artifact
MiddlewareCatch_cachesFailure(i) ==
    /\ i \in 1..Len(tasks)
    /\ Running(tasks[i])
    /\ tasks[i].kind \in {"ico", "png", "sized-ico"}
    /\ tasks' = [tasks EXCEPT ![i].pc = "done", ![i].resp = NextError]
    /\ generatedIco' = IF tasks[i].kind = "ico" THEN Some(<<>>) ELSE generatedIco
    /\ generatedPngs' = IF tasks[i].kind = "ico" THEN generatedPngs ELSE Some(<<>>)
    /\ UNCHANGED <<opts, sourceFile, now, cacheId, sent, build, packVars, htmlVars, fnVars>>

\* readFile or an encode rejects inside a middleware: catch (e) { next(e) }
MiddlewareCatch(i) ==
    /\ i \in 1..Len(tasks)
    /\ Running(tasks[i])
    /\ tasks[i].kind \in {"ico", "png", "sized-ico"}
    /\ tasks' = [tasks EXCEPT ![i].pc = "done", ![i].resp = NextError]
    /\ UNCHANGED <<opts, sourceFile, now, generatedIco, generatedPngs, cacheId, sent, build, packVars, htmlVars, fnVars>>

\* a failed regeneration dropping the cached artifacts
HookRejects_clearsCache(i) ==
    /\ i \in 1..Len(tasks)
    /\ Running(tasks[i])
    /\ tasks[i].kind \in {"buildStart", "hmr"}
    /\ tasks' = [tasks EXCEPT ![i].pc = "done", ![i].resp = Rejected]
    /\ generatedIco' = None
    /\ generatedPngs' = None
    /\ UNCHANGED <<opts, sourceFile, now, cacheId, sent, build, packVars, htmlVars, fnVars>>

\* readFile or an encode rejects inside buildStart or handleHotUpdate: neither
\* has a try block, the returned promise rejects
HookRejects(i) ==
    /\ i \in 1..Len(tasks)
    /\ Running(tasks[i])
    /\ tasks[i].kind \in {"buildStart", "hmr"}
    /\ tasks' = [tasks EXCEPT ![i].pc = "done", ![i].resp = Rejected]
    /\ UNCHANGED <<opts, sourceFile, now, generatedIco, generatedPngs, cacheId, sent, build, packVars, htmlVars, fnVars>>

\* the ICO middleware keeping the combined ICO only
IcoResume_icoOnly(i) ==
    /\ i \in 1..Len(tasks)
    /\ tasks[i].pc = "encoding" /\ tasks[i].kind = "ico"
    /\ LET pngs == SizedPngs(tasks[i].content, sizes)
       IN  /\ generatedIco' = Some(packIco(pngs))
           /\ tasks' = [tasks EXCEPT ![i].pc = "done",
                                     ![i].resp = Respond("image/x-icon", packIco(pngs))]
    /\ UNCHANGED <<opts, sourceFile, now, generatedPngs, cacheId, sent, build, packVars, htmlVars, fnVars>>

\* lines 315-321: the ICO middleware after the await
IcoResume(i) ==
    /\ i \in 1..Len(tasks)
    /\ tasks[i].pc = "encoding" /\ tasks[i].kind = "ico"
    /\ LET pngs == SizedPngs(tasks[i].content, sizes)
       IN  /\ generatedIco' = Some(packIco(pngs))
           /\ generatedPngs' = IF emitSizes THEN Some(pngs) ELSE generatedPngs
           /\ tasks' = [tasks EXCEPT ![i].pc = "done",
                                     ![i].resp = Respond("image/x-icon", packIco(pngs))]
    /\ UNCHANGED <<opts, sourceFile, now, cacheId, sent, build, packVars, htmlVars, fnVars>>

\* lines 347-356: the PNG middleware after the await
PngResume(i) ==
    /\ i \in 1..Len(tasks)
    /\ tasks[i].pc = "encoding" /\ tasks[i].kind = "png"
    /\ LET pngs == SizedPngs(tasks[i].content, sizes)
       IN  /\ generatedPngs' = Some(pngs)
           /\ tasks' = [tasks EXCEPT ![i].pc = "done",
                                     ![i].resp = PngResponse(pngs, tasks[i].size)]
    /\ UNCHANGED <<opts, sourceFile, now, generatedIco, cacheId, sent, build, packVars, htmlVars, fnVars>>

\* lines 366-375: the single-entry ICO middleware after the await
SizedIcoResume(i) ==
    /\ i \in 1..Len(tasks)
    /\ tasks[i].pc = "encoding" /\ tasks[i].kind = "sized-ico"
    /\ LET pngs == SizedPngs(tasks[i].content, sizes)
       IN  /\ generatedPngs' = Some(pngs)
           /\ tasks' = [tasks EXCEPT ![i].pc = "done",
                                     ![i].resp = SizedIcoResponse(pngs, tasks[i].size)]
    /\ UNCHANGED <<opts, sourceFile, now, generatedIco, cacheId, sent, build, packVars, htmlVars, fnVars>>

\* buildStart filling the combined ICO only
buildStartResume_skipsPerSize(i) ==
    /\ i \in 1..Len(tasks)
    /\ tasks[i].pc = "encoding" /\ tasks[i].kind = "buildStart"
    /\ LET pngs == SizedPngs(tasks[i].content, sizes)
       IN  /\ generatedIco' = Some(packIco(pngs))
           /\ tasks' = [tasks EXCEPT ![i].pc = "done", ![i].resp = Fulfilled]
    /\ UNCHANGED <<opts, sourceFile, now, generatedPngs, cacheId, sent, build, packVars, htmlVars, fnVars>>

\* lines 433-438: the serve-phase buildStart after the await
buildStartResume(i) ==
    /\ i \in 1..Len(tasks)
    /\ tasks[i].pc = "encoding" /\ tasks[i].kind = "buildStart"
    /\ LET pngs == SizedPngs(tasks[i].content, sizes)
       IN  /\ generatedIco' = Some(packIco(pngs))
           /\ generatedPngs' = IF emitSizes THEN Some(pngs) ELSE generatedPngs
           /\ tasks' = [tasks EXCEPT ![i].pc = "done", ![i].resp = Fulfilled]
    /\ UNCHANGED <<opts, sourceFile, now, cacheId, sent, build, packVars, htmlVars, fnVars>>

\* Date.now(): a reading of the millisecond clock, not below the last reading
\* and equal to it when less than a millisecond has passed
DateNow == now' \in now..(IF now < ClockStart + MaxTicks THEN now + 1 ELSE now)

\* the message of lines 454-458
UpdateMessage(token) ==
    [type |-> "custom", event |-> "svg-to-ico:update", data |-> [cacheId |-> token]]

\* the message sent before the new token is minted
handleHotUpdate_sendsOldToken(i) ==
    /\ i \in 1..Len(tasks)
    /\ tasks[i].pc = "encoding" /\ tasks[i].kind = "hmr"
    /\ LET pngs == SizedPngs(tasks[i].content, sizes)
       IN  /\ generatedIco' = Some(packIco(pngs))
           /\ generatedPngs' = IF emitSizes THEN Some(pngs) ELSE generatedPngs
           /\ sent' = Append(sent, UpdateMessage(cacheId))
           /\ DateNow
           /\ cacheId' = ToString36(now')
           /\ tasks' = [tasks EXCEPT ![i].pc = "done", ![i].resp = Fulfilled]
    /\ UNCHANGED <<opts, sourceFile, build, packVars, htmlVars, fnVars>>

\* lines 446-458: handleHotUpdate after the await
handleHotUpdate(i) ==
    /\ i \in 1..Len(tasks)
    /\ tasks[i].pc = "encoding" /\ tasks[i].kind = "hmr"
    /\ LET pngs == SizedPngs(tasks[i].content, sizes)
       IN  /\ generatedIco' = Some(packIco(pngs))
           /\ generatedPngs' = IF emitSizes THEN Some(pngs) ELSE generatedPngs
           /\ DateNow
           /\ cacheId' = ToString36(now')
           /\ sent' = Append(sent, UpdateMessage(cacheId'))
           /\ tasks' = [tasks EXCEPT ![i].pc = "done", ![i].resp = Fulfilled]
    /\ UNCHANGED <<opts, sourceFile, build, packVars, htmlVars, fnVars>>

----------------------------------------------------------------------------
(* Build plugin: buildStart, src/src/index.ts 469-520 *)

Asset(fileName, source) == [type |-> "asset", fileName |-> fileName, source |-> source]

\* `${outputStem}-${png.size}x${png.size}.png` and its .ico counterpart
SizedFileName(size, ext) ==
    outputStem \o "-" \o ToString(size) \o "x" \o ToString(size) \o ext

RECURSIVE SizedAssets(_)
\* lines 494-509: the per-size emitFile calls, in order
SizedAssets(pngs) ==
    IF pngs = <<>> THEN <<>>
    ELSE (IF emitPng THEN <<Asset(SizedFileName(Head(pngs).size, ".png"), Head(pngs).buffer)>>
          ELSE <<>>)
         \o (IF emitIco THEN <<Asset(SizedFileName(Head(pngs).size, ".ico"), packIco(<<Head(pngs)>>))>>
             ELSE <<>>)
         \o SizedAssets(Tail(pngs))

\* line 518
FailureMessage(error) == "[svg-to-ico] Failed to generate ICO: " \o error

\* lines 469-474: the build-phase buildStart is called and awaits readFile
BuildBuildStart ==
    /\ opts.command = "build"
    /\ build.pc = "idle"
    /\ build' = [build EXCEPT !.pc = "reading"]
    /\ UNCHANGED <<opts, serveVars, packVars, htmlVars, fnVars>>

\* the source copy emitted as soon as it is read, before the rasterization
BuildReadFile_emitsSource ==
    /\ build.pc = "reading"
    /\ build' = [build EXCEPT
            !.pc = "encoding", !.content = sourceFile,
            !.emitted = IF opts.source
                        THEN <<Asset(sourceName, FileBytes(sourceFile))>> ELSE <<>>]
    /\ UNCHANGED <<opts, serveVars, packVars, htmlVars, fnVars>>

\* line 474: readFile resolves with the input bytes
BuildReadFile ==
    /\ build.pc = "reading"
    /\ build' = [build EXCEPT !.pc = "encoding", !.content = sourceFile]
    /\ UNCHANGED <<opts, serveVars, packVars, htmlVars, fnVars>>

\* lines 476-512: generateSizedPngs resolved; pack and emit everything
BuildEmit ==
    /\ build.pc = "encoding"
    /\ LET pngs == SizedPngs(build.content, sizes)
           icoBuffer == packIco(pngs)
       IN  build' = [build EXCEPT
                !.pc = "done",
                !.emitted = <<Asset(output, icoBuffer)>>
                            \o (IF opts.source
                                THEN <<Asset(sourceName, FileBytes(build.content))>>
                                ELSE <<>>)
                            \o (IF emitSizes THEN SizedAssets(pngs) ELSE <<>>)]
    /\ UNCHANGED <<opts, serveVars, packVars, htmlVars, fnVars>>

\* lines 517-519: readFile or an encode rejected; this.error aborts the build
BuildCatch ==
    /\ build.pc \in {"reading", "encoding"}
    /\ build' = [build EXCEPT
            !.pc = "failed",
            !.error = Some(FailureMessage(IF build.pc = "reading" THEN "ENOENT"
                                          ELSE "Input buffer contains unsupported image format"))]
    /\ UNCHANGED <<opts, serveVars, packVars, htmlVars, fnVars>>

\* the input file is edited while a build runs
BuildFileChange ==
    /\ opts.command = "build"
    /\ sourceFile < MaxChanges
    /\ build.pc \in {"idle", "reading", "encoding"}
    /\ sourceFile' = sourceFile + 1
    /\ UNCHANGED <<opts, now, generatedIco, generatedPngs, cacheId, tasks, sent, build, packVars, htmlVars, fnVars>>

----------------------------------------------------------------------------
(* Favicon link tags: buildFaviconTags, src/src/html.ts *)

INJECT_MODES == {"minimal", "full"}

\* An href string is kept as the sequence of its pieces: plain text, the
\* separators '?' and '&', and key=value parameters
Text(str) == [t |-> "text", s |-> str, v |-> <<>>]
Sep(str) == [t |-> "sep", s |-> str, v |-> <<>>]
Param(key, value) == [t |-> "param", s |-> key, v |-> value]
\* `${base}${name}`
Url(path) == <<Text(path)>>

\* a SizedFileInfo
SizedFileInfo(name, size, format) == [name |-> name, size |-> size, format |-> format]

\* `${s}x${s}`
SizeAttr(size) == ToString(size) \o "x" \o ToString(size)

RECURSIVE SizesAttr_commas(_)
\* the sizes joined by commas
SizesAttr_commas(sizeList) ==
    IF sizeList = <<>> THEN ""
    ELSE IF Len(sizeList) = 1 THEN SizeAttr(Head(sizeList))
    ELSE SizeAttr(Head(sizeList)) \o "," \o SizesAttr_commas(Tail(sizeList))

RECURSIVE SizesAttr(_)
\* opts.sizes.map((s) => `${s}x${s}`).join(' ')
SizesAttr(sizeList) ==
    IF sizeList = <<>> THEN ""
    ELSE IF Len(sizeList) = 1 THEN SizeAttr(Head(sizeList))
    ELSE SizeAttr(Head(sizeList)) \o " " \o SizesAttr(Tail(sizeList))

\* an HtmlTagDescriptor of a <link rel="icon">
LinkTag(type, href, sizesAttr) ==
    [tag |-> "link",
     attrs |-> [rel |-> "icon", type |-> type, href |-> href, sizes |-> sizesAttr],
     injectTo |-> "head"]

\* 1. ICO, always
IcoTag(o, base) == <<LinkTag("image/x-icon", Url(base \o o.output), SizesAttr(o.sizes))>>

\* the source tag pushed whatever the input format is
SourceTags_anyFormat(o, base) ==
    IF o.sourceEmitted
    THEN <<LinkTag("image/svg+xml", Url(base \o o.sourceName), "any")>>
    ELSE <<>>

\* 2. SVG source, only for SVG input with source emitted
SourceTags(o, base) ==
    IF o.inputFormat = "svg" /\ o.sourceEmitted
    THEN <<LinkTag("image/svg+xml", Url(base \o o.sourceName), "any")>>
    ELSE <<>>

RECURSIVE FileTags_reversed(_, _)
\* the per-size tags pushed last file first
FileTags_reversed(files, base) ==
    IF files = <<>> THEN <<>>
    ELSE FileTags_reversed(Tail(files), base)
         \o <<LinkTag("image/" \o Head(files).format, Url(base \o Head(files).name),
                      SizeAttr(Head(files).size))>>

RECURSIVE FileTags(_, _)
\* the for loop over opts.sizedFiles
FileTags(files, base) ==
    IF files = <<>> THEN <<>>
    ELSE <<LinkTag("image/" \o Head(files).format, Url(base \o Head(files).name),
                   SizeAttr(Head(files).size))>>
         \o FileTags(Tail(files), base)

\* the per-size tags pushed in minimal mode too
SizedTags_anyMode(o, base) ==
    IF IsSome(o.sizedFiles) THEN FileTags(Get(o.sizedFiles), base) ELSE <<>>

\* 3. per-size files, full mode only; an empty array is truthy
SizedTags(o, base) ==
    IF o.mode = "full" /\ IsSome(o.sizedFiles) THEN FileTags(Get(o.sizedFiles), base) ELSE <<>>

\* buildFaviconTags(opts); base = opts.base ?? '/'
buildFaviconTags(o) ==
    LET base == IF IsSome(o.base) THEN Get(o.base) ELSE "/"
    IN  IcoTag(o, base) \o SourceTags(o, base) \o SizedTags(o, base)

----------------------------------------------------------------------------
(* HTML documents and the serve-phase transformIndexHtml, lines 173-245, 385-428 *)

DEV_INJECTIONS == {"transform", "shim"}

injectMode == opts.inject
\* the extension of the configured input, icon.svg
inputFormat == "svg"

RECURSIVE SizedFileInfos(_)
\* the for loop of buildSizedFileInfos
SizedFileInfos(sizeList) ==
    IF sizeList = <<>> THEN <<>>
    ELSE (IF emitPng
          THEN <<SizedFileInfo(SizedFileName(Head(sizeList), ".png"), Head(sizeList), "png")>>
          ELSE <<>>)
         \o (IF emitIco
             THEN <<SizedFileInfo(SizedFileName(Head(sizeList), ".ico"), Head(sizeList), "x-icon")>>
             ELSE <<>>)
         \o SizedFileInfos(Tail(sizeList))

buildSizedFileInfos == IF ~emitSizes THEN <<>> ELSE SizedFileInfos(sizes)

\* lines 196-207; no base is passed
faviconTags ==
    IF injectMode = "false" THEN <<>>
    ELSE buildFaviconTags([output |-> output, sizes |-> sizes,
                           sourceEmitted |-> opts.source, sourceName |-> sourceName,
                           inputFormat |-> inputFormat, mode |-> injectMode,
                           sizedFiles |-> Some(buildSizedFileInfos), base |-> None])

\* href.includes('?')
IncludesQuery(href) == \E i \in 1..Len(href) : href[i].t = "sep" /\ href[i].s = "?"

\* lines 210-213
cacheBust(href) ==
    href \o <<Sep(IF IncludesQuery(href) THEN "&" ELSE "?"), Param("v", cacheId)>>

\* A document is the sequence of its elements.  Of a <link> the rel value (a
\* sequence of characters), the href value and the order of the two
\* attributes are kept; attribute values hold no quote and no '>'.
Link(rel, relFirst, href) ==
    [tag |-> "link", rel |-> rel, relFirst |-> relFirst, href |-> href, quote |-> "\""]
Meta == [tag |-> "meta", rel |-> <<>>, relFirst |-> TRUE, href |-> <<>>, quote |-> "\""]
\* the same element with its attribute values written in another quote
\* style: double quotes, single quotes or none
QUOTES == {"\"", "'"}
Quoted(e, q) == [e EXCEPT !.quote = q]

UpperCase == <<"A", "B", "C", "D", "E", "F", "G", "H", "I", "J", "K", "L", "M",
               "N", "O", "P", "Q", "R", "S", "T", "U", "V", "W", "X", "Y", "Z">>
LowerCase == <<"a", "b", "c", "d", "e", "f", "g", "h", "i", "j", "k", "l", "m",
               "n", "o", "p", "q", "r", "s", "t", "u", "v", "w", "x", "y", "z">>
\* the i flag: characters compared without regard to case
Lower(c) ==
    IF \E k \in 1..26 : UpperCase[k] = c
    THEN LowerCase[CHOOSE k \in 1..26 : UpperCase[k] = c]
    ELSE c
LowerAll(str) == [k \in 1..Len(str) |-> Lower(str[k])]

\* str has sub as a contiguous part
Contains(str, sub) ==
    \E k \in 0..(Len(str) - Len(sub)) : SubSeq(str, k + 1, k + Len(sub)) = sub

IconChars == <<"i", "c", "o", "n">>
ShortcutChars == <<"s", "h", "o", "r", "t", "c", "u", "t">>
AppleTouchChars == <<"a", "p", "p", "l", "e", "-", "t", "o", "u", "c", "h", "-">> \o IconChars
StylesheetChars == <<"s", "t", "y", "l", "e", "s", "h", "e", "e", "t">>
UpperAll(str) ==
    [k \in 1..Len(str) |->
        IF \E j \in 1..26 : LowerCase[j] = str[k]
        THEN UpperCase[CHOOSE j \in 1..26 : LowerCase[j] = str[k]]
        ELSE str[k]]
\* \s+
IsSpaces(str) == Len(str) >= 1 /\ \A k \in 1..Len(str) : str[k] \in {" ", "\t", "\n"}

\* ICON_LINK_RE, line 174: a link whose rel value contains 'icon', whose
\* href attribute follows the rel attribute and has a non-empty value
IconLinkMatches(e) ==
    /\ e.tag = "link"
    /\ e.quote \in QUOTES
    /\ e.relFirst
    /\ Contains(LowerAll(e.rel), IconChars)
    /\ e.href # <<>>

\* the stripping matcher given the rel test of the rewriting matcher
InjectIconLinkMatches_containsIcon(e) ==
    /\ e.tag = "link"
    /\ e.quote \in QUOTES
    /\ Contains(LowerAll(e.rel), IconChars)

\* INJECT_ICON_LINK_RE, html.ts: a link whose quoted rel value is 'icon' or
\* 'shortcut', white space, 'icon'
InjectIconLinkMatches(e) ==
    /\ e.tag = "link"
    /\ e.quote \in QUOTES
    /\ LET rel == LowerAll(e.rel)
       IN  \/ rel = IconChars
           \/ /\ Len(rel) > 12
              /\ SubSeq(rel, 1, 8) = ShortcutChars
              /\ SubSeq(rel, Len(rel) - 3, Len(rel)) = IconChars
              /\ IsSpaces(SubSeq(rel, 9, Len(rel) - 4))

\* processed.replace(ICON_LINK_RE, (_match, before, href, after) => ..cacheBust(href)..)
RewriteIconLinks(doc) ==
    [k \in 1..Len(doc) |->
        IF IconLinkMatches(doc[k]) THEN [doc[k] EXCEPT !.href = cacheBust(@)] ELSE doc[k]]

\* every link whose rel contains 'icon' stripped
StripIconLinks_broad(doc) ==
    SelectSeq(doc, LAMBDA e : ~(e.tag = "link" /\ Contains(LowerAll(e.rel), IconChars)))

\* processed.replace(INJECT_ICON_LINK_RE, '')
StripIconLinks(doc) == SelectSeq(doc, LAMBDA e : ~InjectIconLinkMatches(e))

\* lines 402-407: the favicon tags with cache-busted hrefs
BustedTags ==
    [k \in 1..Len(faviconTags) |->
        [faviconTags[k] EXCEPT !.attrs.href = cacheBust(@)]]

\* a <script type="module"> descriptor
ScriptTag(children) ==
    [tag |-> "script", attrs |-> [type |-> "module"], children |-> children,
     injectTo |-> "head"]

\* lines 183-193: what the HMR client snippet does
hmrClientCode ==
    [kind |-> "hmr-client", on |-> "svg-to-ico:update",
     selector |-> "link[rel*=\"icon\"]", sets |-> "v"]

\* lines 216-245: the shim script; links is the JSON of the tag attributes
buildShimScript ==
    [kind |-> "shim",
     links |-> [k \in 1..Len(faviconTags) |-> faviconTags[k].attrs],
     removes |-> {"link[rel=\"icon\"]", "link[rel=\"shortcut icon\"]"},
     listener |-> IF opts.hmr THEN Some(hmrClientCode) ELSE None]

\* the HMR client script added whatever dev.hmr is
HmrTags_always == <<ScriptTag(hmrClientCode)>>
\* the HMR client script of lines 417-424
HmrTags == IF opts.hmr THEN <<ScriptTag(hmrClientCode)>> ELSE <<>>

\* the injecting branch without the strip of the existing links
transformIndexHtml_noStrip(doc) ==
    /\ ServePlugin
    /\ page' = Some(
            IF opts.injection = "shim"
            THEN [doc |-> doc, html |-> doc, tags |-> <<ScriptTag(buildShimScript)>>]
            ELSE IF injectMode # "false"
            THEN [doc |-> doc, html |-> doc, tags |-> BustedTags \o HmrTags]
            ELSE [doc |-> doc, html |-> RewriteIconLinks(doc), tags |-> HmrTags])
    /\ UNCHANGED <<opts, serveVars, build, packVars, tagsIn, tagsOut, fnVars>>

\* lines 385-428: transformIndexHtml(html) of the serve plugin
transformIndexHtml(doc) ==
    /\ ServePlugin
    /\ page' = Some(
            IF opts.injection = "shim"
            THEN [doc |-> doc, html |-> doc, tags |-> <<ScriptTag(buildShimScript)>>]
            ELSE IF injectMode # "false"
            THEN [doc |-> doc, html |-> StripIconLinks(doc), tags |-> BustedTags \o HmrTags]
            ELSE [doc |-> doc, html |-> RewriteIconLinks(doc), tags |-> HmrTags])
    /\ UNCHANGED <<opts, serveVars, build, packVars, tagsIn, tagsOut, fnVars>>

\* the build transform returning the tags cache-busted as the dev one does
BuildTransformIndexHtml_busted(doc) ==
    /\ opts.command = "build"
    /\ page' = Some(
            IF injectMode = "false"
            THEN [doc |-> doc, html |-> doc, tags |-> <<>>]
            ELSE [doc |-> doc, html |-> StripIconLinks(doc), tags |-> BustedTags])
    /\ UNCHANGED <<opts, serveVars, build, packVars, tagsIn, tagsOut, fnVars>>

\* lines 522-530: transformIndexHtml(html) of the build plugin; returning
\* nothing leaves the document as it is
BuildTransformIndexHtml(doc) ==
    /\ opts.command = "build"
    /\ page' = Some(
            IF injectMode = "false"
            THEN [doc |-> doc, html |-> doc, tags |-> <<>>]
            ELSE [doc |-> doc, html |-> StripIconLinks(doc), tags |-> faviconTags])
    /\ UNCHANGED <<opts, serveVars, build, packVars, tagsIn, tagsOut, fnVars>>

----------------------------------------------------------------------------
(* The plugin instance: svgToIco, lines 87-171 *)

\* no direct call of generateSizedPngs was made
NoGen ==
    [pc |-> "idle", opts |-> None, content |-> 0, calls |-> <<>>, order |-> <<>>,
     result |-> None]

InitWith(o) ==
    /\ opts = o
    /\ sourceFile = 0
    /\ now = ClockStart
    /\ generatedIco = None
    /\ generatedPngs = None
    /\ cacheId = ToString36(ClockStart)
    /\ tasks = <<>>
    /\ sent = <<>>
    /\ build = [pc |-> "idle", content |-> 0, emitted |-> <<>>, error |-> None]
    /\ packIn = <<>>
    /\ packOut = None
    /\ page = None
    /\ tagsIn = None
    /\ tagsOut = <<>>
    /\ callIn = None
    /\ callOut = None
    /\ gen = NoGen

Init == \E o \in Options : InitWith(o)

Next ==
    \/ IcoMiddleware
    \/ \E i \in 1..Len(sizes) : PngMiddleware(sizes[i])
    \/ \E i \in 1..Len(sizes) : SizedIcoMiddleware(sizes[i])
    \/ buildStart
    \/ \E file \in Files : FileChange(file)
    \/ \E i \in 1..MaxTasks : ReadFile(i)
    \/ \E i \in 1..MaxTasks : MiddlewareCatch(i)
    \/ \E i \in 1..MaxTasks : HookRejects(i)
    \/ \E i \in 1..MaxTasks : IcoResume(i)
    \/ \E i \in 1..MaxTasks : PngResume(i)
    \/ \E i \in 1..MaxTasks : SizedIcoResume(i)
    \/ \E i \in 1..MaxTasks : buildStartResume(i)
    \/ \E i \in 1..MaxTasks : handleHotUpdate(i)
    \/ BuildBuildStart
    \/ BuildReadFile
    \/ BuildEmit
    \/ BuildCatch
    \/ BuildFileChange

Spec == Init /\ [][Next]_vars

----------------------------------------------------------------------------
(* The dev server alone, observed from construction or from the moment the *)
(* serve-phase buildStart (lines 430-439) has completed                     *)

ServeOptions == {o \in Options : o.command = "serve"}

\* the state buildStart leaves: both caches hold the artifacts of the first
\* content; the record of handler invocations starts here
InitStarted(o) ==
    /\ opts = o
    /\ sourceFile = 0
    /\ now = ClockStart
    /\ generatedIco = Some(packIco(SizedPngs(0, o.sizes)))
    /\ generatedPngs = IF o.emitSizes # "false" THEN Some(SizedPngs(0, o.sizes)) ELSE None
    /\ cacheId = ToString36(ClockStart)
    /\ tasks = <<>>
    /\ sent = <<>>
    /\ build = [pc |-> "idle", content |-> 0, emitted |-> <<>>, error |-> None]
    /\ packIn = <<>>
    /\ packOut = None
    /\ page = None
    /\ tagsIn = None
    /\ tagsOut = <<>>
    /\ callIn = None
    /\ callOut = None
    /\ gen = NoGen

InitServe == \E o \in ServeOptions : InitWith(o) \/ InitStarted(o)

NextServe ==
    \/ IcoMiddleware
    \/ \E i \in 1..Len(sizes) : PngMiddleware(sizes[i])
    \/ \E i \in 1..Len(sizes) : SizedIcoMiddleware(sizes[i])
    \/ buildStart
    \/ \E file \in ServeFiles : FileChange(file)
    \/ \E i \in 1..MaxTasks : ReadFile(i)
    \/ \E i \in 1..MaxTasks : MiddlewareCatch(i)
    \/ \E i \in 1..MaxTasks : HookRejects(i)
    \/ \E i \in 1..MaxTasks : IcoResume(i)
    \/ \E i \in 1..MaxTasks : PngResume(i)
    \/ \E i \in 1..MaxTasks : SizedIcoResume(i)
    \/ \E i \in 1..MaxTasks : buildStartResume(i)
    \/ \E i \in 1..MaxTasks : handleHotUpdate(i)

SpecServe == InitServe /\ [][NextServe]_vars

----------------------------------------------------------------------------
(* packIco called directly, as the tests of the codec do *)

PackSizes == {1, 16, 255, 256}
PackBuffers == {<<>>, <<7>>, <<7, 9>>}
Rasters == [size : PackSizes, buffer : PackBuffers]

\* no plugin instance: only the exported codec is used
NoPlugin == [command |-> "none", sizes |-> <<16>>, emitSizes |-> "false",
             source |-> FALSE, hmr |-> FALSE, inject |-> "false",
             injection |-> "transform", enabled |-> FALSE, dev |-> DevUndefined]

InitPack == InitWith(NoPlugin)

\* the caller builds the argument list
PackPush(png) ==
    /\ ~IsSome(packOut)
    /\ Len(packIn) < MaxRasters
    /\ packIn' = Append(packIn, png)
    /\ UNCHANGED <<opts, serveVars, build, packOut, htmlVars, fnVars>>

\* packIco(pngs) returns
PackCall ==
    /\ ~IsSome(packOut)
    /\ packOut' = Some(packIco(packIn))
    /\ UNCHANGED <<opts, serveVars, build, packIn, htmlVars, fnVars>>

NextPack ==
    \/ \E png \in Rasters : PackPush(png)
    \/ PackCall

SpecPack == InitPack /\ [][NextPack]_vars

\* reading a buffer back: Buffer.readUInt8 / readUInt16LE / readUInt32LE at
\* a 0-based position
ReadU8(buf, pos) == buf[pos + 1]
ReadU16LE(buf, pos) == buf[pos + 1] + 256 * buf[pos + 2]
ReadU32LE(buf, pos) ==
    buf[pos + 1] + 256 * buf[pos + 2] + 65536 * buf[pos + 3] + 16777216 * buf[pos + 4]

----------------------------------------------------------------------------
(* Properties of the serving state machine *)

TaskIds == 1..Len(tasks)
IsRequest(t) == t.kind \in {"ico", "png", "sized-ico"}
IsChange(t) == t.kind = "hmr" /\ t.file = resolvedInput
\* what a generation started now would cache
FreshPngs == SizedPngs(sourceFile, sizes)
Failed(t) == t.resp.status \in {"error", "rejected"}

\* C1: two first requests for the combined ICO that overlap on an empty cache
\* cause one invocation of the rasterization pipeline (never two of them are
\* awaiting a generation of their own), and two such requests that both ran a
\* generation are answered with the same bytes.
C1_ConcurrentIcoRequestsShareOneRun ==
    \A i, j \in TaskIds :
        (i < j /\ tasks[i].kind = "ico" /\ tasks[j].kind = "ico"
               /\ tasks[i].ran /\ tasks[j].ran)
        => /\ ~(Running(tasks[i]) /\ Running(tasks[j]))
           /\ (tasks[i].resp.status = "ok" /\ tasks[j].resp.status = "ok"
               => tasks[i].resp.body = tasks[j].resp.body)

\* C2: in every reachable state at most one run of generateSizedPngs is in
\* flight, whichever handlers started it.
C2_AtMostOneRunInFlight == Cardinality(InFlight) <= 1

\* C3: with the change handler installed and no generation failing, once
\* every generation has completed the cached combined ICO and per-size rasters
\* are the ones of the current source content.
C3_QuiescentCacheIsLatest ==
    (opts.hmr /\ InFlight = {} /\ \A i \in TaskIds : ~Failed(tasks[i]))
    => /\ IsSome(generatedIco) => Get(generatedIco) = packIco(FreshPngs)
       /\ IsSome(generatedPngs) => Get(generatedPngs) = FreshPngs

\* C4: a change of the input file notified while the cache is POPULATED, and
\* whose regeneration succeeds, leaves the cache POPULATED with a cacheId
\* different from the one held when the notification arrived.
C4_ChangeMintsDifferentToken ==
    [][\A i \in TaskIds :
        (IsChange(tasks[i]) /\ tasks[i].pop0
         /\ tasks[i].resp.status = "pending" /\ tasks'[i].resp.status = "fulfilled")
        => (IsSome(generatedIco') /\ (emitSizes => IsSome(generatedPngs'))
            /\ cacheId' # tasks[i].tok0)]_vars

\* C5 as stated: every notified change of the input file whose handler has
\* returned has had exactly one update message sent for it.
C5_OneMessagePerChange ==
    Len(sent) = Cardinality({i \in TaskIds : IsChange(tasks[i]) /\ tasks[i].pc = "done"})

\* C5 amended: exactly one message is sent for every notified change of the
\* input file whose regeneration succeeded and none for one whose regeneration
\* failed; every message is the custom event 'svg-to-ico:update', never a
\* full reload, and carries the cacheId that is current when it is sent.
C5_OneMessagePerSuccessfulChange ==
    /\ [](/\ Len(sent) = Cardinality({i \in TaskIds :
                            IsChange(tasks[i]) /\ tasks[i].resp.status = "fulfilled"})
          /\ \A k \in 1..Len(sent) :
                sent[k].type = "custom" /\ sent[k].event = "svg-to-ico:update")
    /\ [][sent' # sent =>
            /\ Len(sent') = Len(sent) + 1
            /\ SubSeq(sent', 1, Len(sent)) = sent
            /\ sent'[Len(sent')].data.cacheId = cacheId']_vars

\* C5 witness: one change was answered with a message, another one failed
C5_Witness ==
    /\ Len(sent) = 1
    /\ \E i \in TaskIds : IsChange(tasks[i]) /\ tasks[i].resp.status = "rejected"

\* the cache a request needs: the combined ICO, or the per-size list
NeededCache(kind, ico, pngs) == IF kind = "ico" THEN ico ELSE pngs

\* the body a request is answered with out of given caches
BodyFrom(t, ico, pngs) ==
    IF t.kind = "ico" THEN Get(ico)
    ELSE IF t.kind = "png" THEN Get(Find(Get(pngs), t.size)).buffer
    ELSE packIco(<<Get(Find(Get(pngs), t.size))>>)

\* C6: an asset request is never answered with an absent artifact.  A request
\* that finds the cache it needs present is answered at once from that cache
\* and starts no generation; one that finds it empty starts a generation, and
\* when it is answered the cache it needs holds the artifact it is answered
\* with.  No request is passed on for want of its raster.
C6_RequestsServedFromPopulatedCache ==
    /\ [](\A i \in TaskIds :
            IsRequest(tasks[i]) =>
                /\ tasks[i].resp.status # "next"
                /\ tasks[i].resp.status = "ok" => tasks[i].resp.body # <<>>)
    /\ [][/\ \A i \in TaskIds :
                (IsRequest(tasks[i]) /\ tasks[i].resp.status = "pending"
                 /\ tasks'[i].resp.status = "ok")
                => /\ IsSome(NeededCache(tasks[i].kind, generatedIco', generatedPngs'))
                   /\ tasks'[i].resp.body = BodyFrom(tasks[i], generatedIco', generatedPngs')
          /\ (Len(tasks') = Len(tasks) + 1 /\ IsRequest(tasks'[Len(tasks')]))
             => LET t == tasks'[Len(tasks')]
                    cache == NeededCache(t.kind, generatedIco, generatedPngs)
                IN  IF IsSome(cache)
                    THEN /\ ~t.ran /\ t.pc = "done" /\ t.resp.status = "ok"
                         /\ t.resp.body = BodyFrom(t, generatedIco, generatedPngs)
                    ELSE t.ran /\ t.resp.status = "pending"]_vars

\* C6 witness: one request populated the empty cache and was answered, a
\* later one was answered from the cache without a generation
C6_Witness ==
    \E i, j \in TaskIds :
        /\ i < j /\ IsRequest(tasks[i]) /\ IsRequest(tasks[j])
        /\ tasks[i].ran /\ tasks[i].resp.status = "ok"
        /\ ~tasks[j].ran /\ tasks[j].resp.status = "ok"

\* C7: when the serve-phase buildStart, called on an EMPTY cache, completes,
\* the combined ICO is present and, with per-size emission configured, so is
\* the per-size list, and both are the output of the one pipeline run that
\* buildStart made; the cache stays POPULATED afterwards.
C7_BuildStartPopulates ==
    /\ [](\A i \in TaskIds :
            (tasks[i].kind = "buildStart" /\ tasks[i].resp.status = "fulfilled")
            => Populated /\ tasks[i].ran)
    /\ [][\A i \in TaskIds :
            (tasks[i].kind = "buildStart" /\ tasks[i].resp.status = "pending"
             /\ tasks'[i].resp.status = "fulfilled")
            => LET pngs == SizedPngs(tasks[i].content, sizes)
               IN  /\ generatedIco' = Some(packIco(pngs))
                   /\ emitSizes => generatedPngs' = Some(pngs)]_vars

\* C7 witness: buildStart has completed with per-size emission configured
C7_Witness ==
    /\ emitSizes
    /\ Len(tasks) = 1
    /\ tasks[1].kind = "buildStart" /\ tasks[1].resp.status = "fulfilled"

\* C8: when the generation started by an asset request fails, the request is
\* passed on with the error, neither cache is written, and a request that
\* arrives afterwards while its cache is still empty starts a generation again.
C8_FailedRequestCachesNothing ==
    [][/\ \A i \in TaskIds :
            (IsRequest(tasks[i]) /\ Running(tasks[i]) /\ tasks'[i].pc = "done"
             /\ tasks'[i].resp.status # "ok")
            => /\ tasks'[i].resp.status = "error"
               /\ generatedIco' = generatedIco
               /\ generatedPngs' = generatedPngs
       /\ (Len(tasks') = Len(tasks) + 1 /\ IsRequest(tasks'[Len(tasks')])
           /\ ~IsSome(NeededCache(tasks'[Len(tasks')].kind, generatedIco, generatedPngs)))
          => tasks'[Len(tasks')].ran]_vars

\* C8 witness: a request failed on the empty cache, the next one runs again
C8_Witness ==
    /\ Len(tasks) = 2
    /\ tasks[1].kind = "ico" /\ tasks[1].resp.status = "error"
    /\ tasks[2].kind = "ico" /\ tasks[2].ran
    /\ Empty

\* C9: a build whose read or rasterization failed was aborted with a message
\* and has emitted no asset; a serve-phase buildStart whose generation fails
\* rejects and leaves both caches as they were.
C9_FailedBuildEmitsNothing ==
    /\ [](build.pc = "failed" =>
            /\ build.emitted = <<>>
            /\ IsSome(build.error))
    /\ [][\A i \in TaskIds :
            (tasks[i].kind = "buildStart" /\ Running(tasks[i]) /\ tasks'[i].pc = "done"
             /\ tasks'[i].resp.status # "fulfilled")
            => /\ tasks'[i].resp.status = "rejected"
               /\ generatedIco' = generatedIco
               /\ generatedPngs' = generatedPngs]_vars

\* C9 witness: the build failed after the input was read, with the source
\* copy configured; or the serve-phase buildStart failed and the cache is EMPTY
C9_Witness ==
    \/ /\ build.pc = "failed" /\ opts.source /\ emitSizes
       /\ Get(build.error) = FailureMessage("Input buffer contains unsupported image format")
    \/ /\ Len(tasks) = 1 /\ tasks[1].kind = "buildStart"
       /\ tasks[1].resp.status = "rejected" /\ Empty

----------------------------------------------------------------------------
(* Properties of the codec *)

\* C10: for every non-empty raster list, the output of packIco starts with a
\* 6-byte header whose little-endian u16 fields are reserved = 0, type = 1 and
\* count = the number of rasters.
C10_Header ==
    (IsSome(packOut) /\ packIn # <<>>)
    => LET ico == Get(packOut)
       IN  /\ Len(ico) >= 6
           /\ ReadU16LE(ico, 0) = 0
           /\ ReadU16LE(ico, 2) = 1
           /\ ReadU16LE(ico, 4) = Len(packIn)

\* C10 witness: a list of two rasters, one of them 256 pixels, was packed
C10_Witness ==
    /\ IsSome(packOut)
    /\ Len(packIn) = 2
    /\ packIn[2].size = 256

\* position of the i-th directory entry (i from 1) in an ICO buffer
EntryPos(i) == 6 + 16 * (i - 1)
\* the data-size and data-offset fields of the i-th entry of an ICO buffer
DataSize(ico, i) == ReadU32LE(ico, EntryPos(i) + 8)
DataOffset(ico, i) == ReadU32LE(ico, EntryPos(i) + 12)

RECURSIVE SumLen(_, _)
\* the sum of the buffer lengths of the first n rasters
SumLen(pngs, n) == IF n = 0 THEN 0 ELSE SumLen(pngs, n - 1) + Len(pngs[n].buffer)

\* C11: for every raster at index i, the i-th directory entry has its width
\* and height bytes both 0 when the size is 256 and both equal to the size
\* when it is in 1..255, palette byte 0, reserved byte 0, planes 1 and 32 bits
\* per pixel.
C11_EntryFields ==
    IsSome(packOut) =>
        \A i \in 1..Len(packIn) :
            LET ico == Get(packOut)
                pos == EntryPos(i)
                dim == IF packIn[i].size = 256 THEN 0 ELSE packIn[i].size
            IN  /\ Len(ico) >= pos + 16
                /\ ReadU8(ico, pos) = dim
                /\ ReadU8(ico, pos + 1) = dim
                /\ ReadU8(ico, pos + 2) = 0
                /\ ReadU8(ico, pos + 3) = 0
                /\ ReadU16LE(ico, pos + 4) = 1
                /\ ReadU16LE(ico, pos + 6) = 32

\* C11 witness: a 256-pixel raster and a 255-pixel raster were packed
C11_Witness ==
    /\ IsSome(packOut)
    /\ \E i, j \in 1..Len(packIn) : packIn[i].size = 256 /\ packIn[j].size = 255

\* C12: for every entry i, the data-size field is the length of raster i's
\* buffer and the data-offset field is 6 + 16 * count + the lengths of the
\* buffers before it; with three rasters the first offset is 54.
C12_SizeAndOffsetFields ==
    IsSome(packOut) =>
        /\ \A i \in 1..Len(packIn) :
            /\ DataSize(Get(packOut), i) = Len(packIn[i].buffer)
            /\ DataOffset(Get(packOut), i) = 6 + 16 * Len(packIn) + SumLen(packIn, i - 1)
        /\ Len(packIn) = 3 => DataOffset(Get(packOut), 1) = 54

\* C12 witness: three rasters with payloads of different lengths were packed
C12_Witness ==
    /\ IsSome(packOut)
    /\ Len(packIn) = 3
    /\ Len(packIn[1].buffer) = 2 /\ Len(packIn[2].buffer) = 1

\* C13: the output is as long as the last entry's offset plus the last
\* payload's length; the payload ranges begin right after the directory, each
\* begins where the one before ends, and the last ends at the end of the buffer.
C13_PayloadsTileTheBuffer ==
    (IsSome(packOut) /\ packIn # <<>>) =>
        LET ico == Get(packOut)
            n == Len(packIn)
        IN  /\ Len(ico) = DataOffset(ico, n) + DataSize(ico, n)
            /\ DataOffset(ico, 1) = 6 + 16 * ReadU16LE(ico, 4)
            /\ \A i \in 1..(n - 1) :
                DataOffset(ico, i + 1) = DataOffset(ico, i) + DataSize(ico, i)
            /\ \A i, j \in 1..n :
                i < j => DataOffset(ico, i) + DataSize(ico, i) <= DataOffset(ico, j)

\* C13 witness: two or more rasters, the first with a non-empty payload
C13_Witness ==
    /\ IsSome(packOut)
    /\ Len(packIn) >= 2
    /\ packIn[1].buffer # <<>>

\* what a standard ICO reader makes of a buffer: count entries, a width byte
\* of 0 read as 256, each payload taken from its offset for its size
ParseIco(ico) ==
    [i \in 1..ReadU16LE(ico, 4) |->
        [size |-> IF ReadU8(ico, EntryPos(i)) = 0 THEN 256 ELSE ReadU8(ico, EntryPos(i)),
         buffer |-> SubSeq(ico, DataOffset(ico, i) + 1, DataOffset(ico, i) + DataSize(ico, i))]]

\* C14: reading the output of packIco back as an ICO reader does yields the
\* input list of (size, buffer) pairs, in order and byte for byte.
C14_RoundTrip == IsSome(packOut) => ParseIco(Get(packOut)) = packIn

\* C14 witness: two rasters with different payloads, one of 256 pixels
C14_Witness ==
    /\ IsSome(packOut)
    /\ Len(packIn) = 2
    /\ packIn[1].size = 256
    /\ packIn[1].buffer = <<7, 9>> /\ packIn[2].buffer = <<7>>

----------------------------------------------------------------------------
(* buildFaviconTags called directly, as the tests of html.ts do *)

FileLists ==
    {<<>>,
     <<SizedFileInfo("favicon-16x16.png", 16, "png")>>,
     <<SizedFileInfo("favicon-16x16.png", 16, "png"),
       SizedFileInfo("favicon-16x16.ico", 16, "x-icon"),
       SizedFileInfo("favicon-32x32.png", 32, "png")>>}

\* FaviconTagOptions; sizedFiles and base are optional
TagOptions ==
    [output : {"favicon.ico", "app.ico"},
     sizes : {<<16>>, <<16, 32, 48>>, <<256, 16>>},
     sourceEmitted : BOOLEAN,
     sourceName : {"icon.svg", "logo.png"},
     inputFormat : {"svg", "png"},
     mode : INJECT_MODES,
     sizedFiles : {None} \cup {Some(f) : f \in FileLists},
     base : {None, Some("/"), Some("/repo/")}]

InitTags == InitWith(NoPlugin)

\* buildFaviconTags(o) returns
TagsCall(o) ==
    /\ ~IsSome(tagsIn)
    /\ tagsIn' = Some(o)
    /\ tagsOut' = buildFaviconTags(o)
    /\ UNCHANGED <<opts, serveVars, build, packVars, page, fnVars>>

NextTags == \E o \in TagOptions : TagsCall(o)

SpecTags == InitTags /\ [][NextTags]_vars

----------------------------------------------------------------------------
(* The dev server answering HTML document requests between source changes *)

IconLink == Link(IconChars, TRUE, Url("/favicon.ico"))
ShortcutLink ==
    Link(ShortcutChars \o <<" ">> \o IconChars, TRUE,
         <<Text("/old.ico"), Sep("?"), Param("t", <<1>>)>>)
AppleTouchLink == Link(AppleTouchChars, TRUE, Url("/apple.png"))
HrefFirstLink == Link(<<"I", "C", "O", "N">>, FALSE, Url("/favicon.ico"))
StylesheetLink == Link(StylesheetChars, TRUE, Url("/main.css"))
\* the documents requested
Docs ==
    {<<Meta>>,
     <<IconLink>>,
     <<Meta, Quoted(ShortcutLink, "'"), AppleTouchLink>>,
     <<HrefFirstLink, StylesheetLink>>,
     <<IconLink, AppleTouchLink, ShortcutLink, Meta>>}

\* the dev option as the user writes it
HtmlDevs ==
    {DevUndefined, DevBool(FALSE),
     DevObject(None, Undefined, Some(FALSE)),
     DevObject(None, Str("shim"), None),
     DevObject(Some(TRUE), Str("shim"), Some(FALSE)),
     DevObject(Some(FALSE), Str("shim"), Some(FALSE))}
HtmlOptions ==
    {WithDev(o, dev) :
        o \in [command : {"serve", "build"},
               sizes : {<<16, 256>>},
               emitSizes : {"both"},
               source : {TRUE},
               inject : INJECT_MODES \cup {"false"}],
        dev \in HtmlDevs}

InitHtml == \E o \in HtmlOptions : InitWith(o)

NextHtml ==
    \/ \E doc \in Docs : transformIndexHtml(doc)
    \/ \E doc \in Docs : BuildTransformIndexHtml(doc)
    \/ \E file \in Files : FileChange(file)
    \/ \E i \in 1..MaxTasks : ReadFile(i)
    \/ \E i \in 1..MaxTasks : HookRejects(i)
    \/ \E i \in 1..MaxTasks : handleHotUpdate(i)

SpecHtml == InitHtml /\ [][NextHtml]_vars

----------------------------------------------------------------------------
(* INJECT_ICON_LINK_RE applied to one element, as the tests of html.ts do *)

\* rel values that are 'icon' or 'shortcut icon', in some letter case
ExactIconRels ==
    {IconChars, UpperAll(IconChars), <<"I", "c", "o", "n">>,
     ShortcutChars \o <<" ">> \o IconChars,
     UpperAll(ShortcutChars \o <<" ">> \o IconChars),
     <<"S">> \o Tail(ShortcutChars) \o <<" ">> \o <<"I", "c", "o", "n">>}
\* rel values that are neither
OtherRels ==
    {AppleTouchChars, UpperAll(AppleTouchChars), StylesheetChars,
     <<"m", "a", "s", "k", "-">> \o IconChars,
     ShortcutChars \o IconChars,
     IconChars \o <<"s">>,
     IconChars \o <<" ">> \o ShortcutChars,
     <<>>}

MatchInputs ==
    [tag : {"link"}, rel : ExactIconRels \cup OtherRels, relFirst : BOOLEAN,
     href : {Url("/favicon.ico"), <<Text("/favicon.ico"), Sep("?"), Param("t", <<1>>)>>},
     quote : QUOTES \cup {""}]
    \cup {Meta}

InitMatch == InitWith(NoPlugin)

\* INJECT_ICON_LINK_RE.test(e)
MatchCall(e) ==
    /\ ~IsSome(callIn)
    /\ callIn' = Some(e)
    /\ callOut' = Some(InjectIconLinkMatches(e))
    /\ UNCHANGED <<opts, serveVars, build, packVars, htmlVars, gen>>

NextMatch == \E e \in MatchInputs : MatchCall(e)

SpecMatch == InitMatch /\ [][NextMatch]_vars

----------------------------------------------------------------------------
(* Plugin construction and configResolved, src/src/index.ts 87-153, 252-302 *)

\* A number: its integer part and its tenths
Num(whole, tenths) == [whole |-> whole, tenths |-> tenths]
Whole(n) == Num(n, 0)
\* Number.isInteger(s)
IsInteger(x) == x.tenths = 0

\* A path: absolute or relative, its directory segments, and its last
\* segment split as node's extname splits it (ext starts with '.' or is empty)
Path(abs, dir, stem, ext) == [abs |-> abs, dir |-> dir, stem |-> stem, ext |-> ext]
EmptyPath == Path(FALSE, <<>>, "", <<>>)
extname(path) == path.ext
\* resolve(root, input), for paths without '.' and '..' segments
resolve(root, path) ==
    IF path.abs THEN path ELSE [path EXCEPT !.abs = TRUE, !.dir = root \o @]

RECURSIVE Join(_)
\* the string a sequence of characters spells
Join(chars) == IF chars = <<>> THEN "" ELSE Head(chars) \o Join(Tail(chars))

SVG_EXTENSIONS == {<<".", "s", "v", "g">>, <<".", "s", "v", "g", "z">>}
SUPPORTED_EXTENSIONS ==
    SVG_EXTENSIONS \cup
    {<<".", "p", "n", "g">>, <<".", "j", "p", "g">>, <<".", "j", "p", "e", "g">>,
     <<".", "w", "e", "b", "p">>, <<".", "g", "i", "f">>, <<".", "a", "v", "i", "f">>,
     <<".", "t", "i", "f", "f">>, <<".", "t", "i", "f">>}

\* line 123: extname(input).toLowerCase()
InputExt(input) == LowerAll(extname(input))
\* line 124: 'svg', or inputExt.replace('.', '')
InputFormat(input) ==
    IF InputExt(input) \in SVG_EXTENSIONS THEN <<"s", "v", "g">>
    ELSE IF InputExt(input) = <<>> THEN <<>> ELSE Tail(InputExt(input))

\* the MIME sub-type taken to be the format as it is
MimeFormat_noOverrides(format) == format

\* lines 127-128: MIME_OVERRIDES[inputFormat] ?? inputFormat
MimeFormat(format) ==
    IF format = <<"j", "p", "g">> THEN <<"j", "p", "e", "g">>
    ELSE IF format = <<"t", "i", "f">> THEN <<"t", "i", "f", "f">>
    ELSE format

\* line 129
SourceMimeType(input) ==
    IF InputFormat(input) = <<"s", "v", "g">> THEN "image/svg+xml"
    ELSE "image/" \o Join(MimeFormat(InputFormat(input)))

\* lines 95, 108: sizes defaults to [16, 32, 48]
RawSizesOf(raw) == IF IsSome(raw.sizes) THEN Get(raw.sizes) ELSE <<Whole(16), Whole(32), Whole(48)>>
\* lines 103-104: emitOpts?.sizes ?? false, emitOpts?.inject ?? false
OrFalse(value) == IF value.type = "undefined" THEN Bool(FALSE) ELSE value

Threw(message, detail) ==
    [threw |-> TRUE, message |-> message, detail |-> detail, resolvedInput |-> None]
Resolved(path) ==
    [threw |-> FALSE, message |-> "", detail |-> <<>>, resolvedInput |-> Some(path)]

\* the messages of lines 255 and 265, their backquotes written as quotes
E_INPUT == "[svg-to-ico] 'input' must be a non-empty string"
E_SIZES == "[svg-to-ico] 'sizes' must contain at least one value"

\* sizes.filter((s) => !Number.isInteger(s) || s < 1 || s > 256)
InvalidSizes(sizeList) ==
    SelectSeq(sizeList, LAMBDA x : ~IsInteger(x) \/ x.whole < 1 \/ x.whole > 256)

\* the validation without the test of the size list being empty
Validate_acceptsNoSizes(raw, root) ==
    IF raw.input = EmptyPath
    THEN Threw(E_INPUT, <<>>)
    ELSE IF InputExt(raw.input) \notin SUPPORTED_EXTENSIONS
    THEN Threw("[svg-to-ico] Unsupported input format", InputExt(raw.input))
    ELSE IF InvalidSizes(RawSizesOf(raw)) # <<>>
    THEN Threw("[svg-to-ico] Invalid sizes", InvalidSizes(RawSizesOf(raw)))
    ELSE IF OrFalse(raw.emitSizes).type = "string" /\ OrFalse(raw.emitSizes).s \notin EMIT_SIZES_FORMATS
    THEN Threw("[svg-to-ico] Invalid emitSizes value", <<OrFalse(raw.emitSizes).s>>)
    ELSE IF OrFalse(raw.inject).type = "string" /\ OrFalse(raw.inject).s \notin INJECT_MODES
    THEN Threw("[svg-to-ico] Invalid inject value", <<OrFalse(raw.inject).s>>)
    ELSE IF /\ raw.dev.type = "object"
            /\ raw.dev.injection.type # "undefined"
            /\ raw.dev.injection.s \notin DEV_INJECTIONS
    THEN Threw("[svg-to-ico] Invalid dev.injection value", <<raw.dev.injection.s>>)
    ELSE Resolved(resolve(root, raw.input))

\* lines 252-302: what configResolved(config) throws, or the path it stores
Validate(raw, root) ==
    IF raw.input = EmptyPath
    THEN Threw(E_INPUT, <<>>)
    ELSE IF InputExt(raw.input) \notin SUPPORTED_EXTENSIONS
    THEN Threw("[svg-to-ico] Unsupported input format", InputExt(raw.input))
    ELSE IF RawSizesOf(raw) = <<>>
    THEN Threw(E_SIZES, <<>>)
    ELSE IF InvalidSizes(RawSizesOf(raw)) # <<>>
    THEN Threw("[svg-to-ico] Invalid sizes", InvalidSizes(RawSizesOf(raw)))
    ELSE IF OrFalse(raw.emitSizes).type = "string" /\ OrFalse(raw.emitSizes).s \notin EMIT_SIZES_FORMATS
    THEN Threw("[svg-to-ico] Invalid emitSizes value", <<OrFalse(raw.emitSizes).s>>)
    ELSE IF OrFalse(raw.inject).type = "string" /\ OrFalse(raw.inject).s \notin INJECT_MODES
    THEN Threw("[svg-to-ico] Invalid inject value", <<OrFalse(raw.inject).s>>)
    ELSE IF /\ raw.dev.type = "object"
            /\ raw.dev.injection.type # "undefined"
            /\ raw.dev.injection.s \notin DEV_INJECTIONS
    THEN Threw("[svg-to-ico] Invalid dev.injection value", <<raw.dev.injection.s>>)
    ELSE Resolved(resolve(root, raw.input))

\* the third character of an extension in upper case, the rest as it is
MixedCase(ext) == SubSeq(ext, 1, 2) \o UpperAll(SubSeq(ext, 3, 3)) \o SubSeq(ext, 4, Len(ext))
OtherExtensions == {<<".", "b", "m", "p">>, <<".", "i", "c", "o">>}
RawInputs ==
    {Path(FALSE, <<"src">>, "icon", f[ext]) :
        ext \in SUPPORTED_EXTENSIONS \cup OtherExtensions,
        f \in {[e \in SUPPORTED_EXTENSIONS \cup OtherExtensions |-> e],
               [e \in SUPPORTED_EXTENSIONS \cup OtherExtensions |-> UpperAll(e)],
               [e \in SUPPORTED_EXTENSIONS \cup OtherExtensions |-> MixedCase(e)]}}
    \cup {EmptyPath,
          Path(FALSE, <<>>, "icon", <<>>),
          Path(TRUE, <<"abs">>, "logo", <<".", "s", "v", "g">>)}
RawSizes ==
    {None, Some(<<>>), Some(<<Whole(16), Whole(32), Whole(256)>>), Some(<<Whole(0)>>),
     Some(<<Whole(16), Whole(257)>>), Some(<<Num(16, 5), Whole(1)>>)}
RawEmitSizes == {Undefined, Bool(TRUE), Bool(FALSE), Str("both"), Str("jpeg")}
RawInject == {Undefined, Bool(TRUE), Str("full"), Str("all")}
RawDev ==
    {DevUndefined, DevBool(TRUE), DevBool(FALSE),
     DevObject(None, Str("shim"), Some(FALSE)),
     DevObject(None, Str("runtime"), None),
     DevObject(Some(FALSE), Undefined, None)}
\* PluginOptions, the validated keys
RawOptions ==
    [input : RawInputs, sizes : RawSizes, emitSizes : RawEmitSizes,
     inject : RawInject, dev : RawDev]

\* config.root
Root == <<"root">>

InitConfig == InitWith(NoPlugin)

\* svgToIco(raw) returns the plugin list; callIn keeps what the closure holds
svgToIco(raw) ==
    /\ ~IsSome(callIn)
    /\ callIn' = Some([raw |-> raw,
                       sourceMimeType |-> SourceMimeType(raw.input),
                       devOpts |-> DevOpts(RawDevOf(raw.dev)),
                       plugins |-> PluginNames(DevOpts(RawDevOf(raw.dev)).enabled)])
    /\ UNCHANGED <<opts, serveVars, build, packVars, htmlVars, callOut, gen>>

\* the host calls configResolved of the first plugin
configResolved ==
    /\ IsSome(callIn) /\ ~IsSome(callOut)
    /\ callOut' = Some(Validate(Get(callIn).raw, Root))
    /\ UNCHANGED <<opts, serveVars, build, packVars, htmlVars, callIn, gen>>

NextConfig ==
    \/ ~IsSome(callIn) /\ \E raw \in RawOptions : svgToIco(raw)
    \/ configResolved

SpecConfig == InitConfig /\ [][NextConfig]_vars

----------------------------------------------------------------------------
(* generateSizedPngs called directly, src/src/ico.ts: its options and the *)
(* concurrent per-size encodes under Promise.all                          *)

\* DEFAULT_RESIZE
DEFAULT_RESIZE ==
    [fit |-> "contain", background |-> [r |-> 0, g |-> 0, b |-> 0, alpha |-> 0]]

\* An overrides object: every key is present (Some) or absent (None)
ResizeOverrides(fit, background, kernel) ==
    [fit |-> fit, background |-> background, kernel |-> kernel]
PngOverrides(compressionLevel, adaptiveFiltering, palette) ==
    [compressionLevel |-> compressionLevel, adaptiveFiltering |-> adaptiveFiltering,
     palette |-> palette]
\* `key: value` under a later spread `...overrides`
Spread(value, override) == IF IsSome(override) THEN Get(override) ELSE value

\* { ...DEFAULT_RESIZE, ...opts.resize }; kernel stays absent unless given
ResizeOpts(o) ==
    [fit |-> Spread(DEFAULT_RESIZE.fit, o.resize.fit),
     background |-> Spread(DEFAULT_RESIZE.background, o.resize.background),
     kernel |-> o.resize.kernel]

\* the optimize-derived values spread after the overrides
PngOpts_defaultsLast(o) ==
    [compressionLevel |-> IF o.optimize THEN 9 ELSE 6,
     adaptiveFiltering |-> o.optimize,
     palette |-> o.png.palette]

\* { compressionLevel: optimize ? 9 : 6, adaptiveFiltering: optimize, ...opts.png }
PngOpts(o) ==
    [compressionLevel |-> Spread(IF o.optimize THEN 9 ELSE 6, o.png.compressionLevel),
     adaptiveFiltering |-> Spread(o.optimize, o.png.adaptiveFiltering),
     palette |-> o.png.palette]

\* one sharp(inputBuffer).resize(size, size, resizeOpts).png(pngOpts).toBuffer()
EncodeCall(size, o) ==
    [size |-> size, width |-> size, height |-> size, resize |-> ResizeOpts(o),
     png |-> PngOpts(o), done |-> FALSE]

GenSizeLists == {<<16>>, <<16, 32>>, <<32, 16, 48>>}
GenResizes ==
    {ResizeOverrides(None, None, None),
     ResizeOverrides(None, None, Some("nearest")),
     ResizeOverrides(Some("cover"), Some([r |-> 255, g |-> 255, b |-> 255, alpha |-> 1]), None)}
GenPngs ==
    {PngOverrides(None, None, None),
     PngOverrides(Some(3), None, None),
     PngOverrides(None, Some(TRUE), Some(TRUE)),
     PngOverrides(Some(0), Some(FALSE), None)}
\* the arguments of generateSizedPngs: a Buffer or a path, and GenerateOptions
GenerateOptions ==
    [isBuffer : BOOLEAN, sizes : GenSizeLists, optimize : BOOLEAN,
     resize : GenResizes, png : GenPngs]

InitGen == InitWith(NoPlugin)

\* lines 151-167 up to the first await are run; with a Buffer nothing is read
\* and the encodes are started at once
generateSizedPngs(o) ==
    /\ gen.pc = "idle"
    /\ gen' = IF o.isBuffer
              THEN [gen EXCEPT !.pc = "encoding", !.opts = Some(o), !.content = sourceFile,
                               !.calls = [k \in 1..Len(o.sizes) |-> EncodeCall(o.sizes[k], o)]]
              ELSE [gen EXCEPT !.pc = "reading", !.opts = Some(o)]
    /\ UNCHANGED <<opts, serveVars, build, packVars, htmlVars, callIn, callOut>>

\* readFile resolves: opts.sizes.map starts one encode per size
GenReadFile ==
    /\ gen.pc = "reading"
    /\ gen' = [gen EXCEPT
            !.pc = "encoding", !.content = sourceFile,
            !.calls = [k \in 1..Len(Get(gen.opts).sizes) |->
                            EncodeCall(Get(gen.opts).sizes[k], Get(gen.opts))]]
    /\ UNCHANGED <<opts, serveVars, build, packVars, htmlVars, callIn, callOut>>

\* the encode of the k-th size fulfils, in any order with the others
EncodeDone(k) ==
    /\ gen.pc = "encoding"
    /\ k \in 1..Len(gen.calls)
    /\ ~gen.calls[k].done
    /\ gen' = [gen EXCEPT !.calls[k].done = TRUE, !.order = Append(@, k)]
    /\ UNCHANGED <<opts, serveVars, build, packVars, htmlVars, callIn, callOut>>

\* readFile rejects, or an encode does: the returned promise rejects
GenRejects ==
    /\ \/ gen.pc = "reading"
       \/ gen.pc = "encoding" /\ \E k \in 1..Len(gen.calls) : ~gen.calls[k].done
    /\ gen' = [gen EXCEPT !.pc = "rejected"]
    /\ UNCHANGED <<opts, serveVars, build, packVars, htmlVars, callIn, callOut>>

\* the rasters returned in the order their encodes completed
GenReturn_completionOrder ==
    /\ gen.pc = "encoding"
    /\ \A k \in 1..Len(gen.calls) : gen.calls[k].done
    /\ gen' = [gen EXCEPT
            !.pc = "returned",
            !.result = Some([k \in 1..Len(gen.order) |->
                                [size |-> gen.calls[gen.order[k]].size,
                                 buffer |-> PngBytes(gen.content, gen.calls[gen.order[k]].size)]])]
    /\ UNCHANGED <<opts, serveVars, build, packVars, htmlVars, callIn, callOut>>

\* Promise.all fulfils once every encode has: the values in the order of the
\* promises, that is of opts.sizes
GenReturn ==
    /\ gen.pc = "encoding"
    /\ \A k \in 1..Len(gen.calls) : gen.calls[k].done
    /\ gen' = [gen EXCEPT
            !.pc = "returned",
            !.result = Some([k \in 1..Len(gen.calls) |->
                                [size |-> gen.calls[k].size,
                                 buffer |-> PngBytes(gen.content, gen.calls[k].size)]])]
    /\ UNCHANGED <<opts, serveVars, build, packVars, htmlVars, callIn, callOut>>

NextGen ==
    \/ gen.pc = "idle" /\ \E o \in GenerateOptions : generateSizedPngs(o)
    \/ GenReadFile
    \/ \E k \in 1..3 : EncodeDone(k)
    \/ GenRejects
    \/ GenReturn

SpecGen == InitGen /\ [][NextGen]_vars

\* C15: every response that carries a generated artifact (combined ICO,
\* per-size PNG, per-size single-entry ICO) has Cache-Control: no-cache,
\* whether it was served from the cache or generated for that request.
C15_ArtifactResponsesAreNoCache ==
    \A i \in TaskIds :
        (IsRequest(tasks[i]) /\ tasks[i].resp.status = "ok") =>
            tasks[i].resp.cache = "no-cache"

\* C15 witness: a per-size ICO generated for its request, then a per-size PNG
\* served from the cache that request filled
C15_Witness ==
    /\ Len(tasks) = 2
    /\ tasks[1].kind = "sized-ico" /\ tasks[1].ran /\ tasks[1].resp.status = "ok"
    /\ tasks[2].kind = "png" /\ ~tasks[2].ran /\ tasks[2].resp.status = "ok"

\* the base path a call of buildFaviconTags uses
BaseOf(o) == IF o.base = None THEN "/" ELSE o.base[1]
\* whether the call is one that yields a source tag
WantsSource(o) == o.inputFormat = "svg" /\ o.sourceEmitted

\* C18: buildFaviconTags returns 1 + (1 if the input format is svg and the
\* source was emitted) + (the number of sized files if the mode is full and
\* sizedFiles is given) tags; minimal mode with svg input and emitted source
\* gives 2, raster input without source in minimal mode gives 1; every tag
\* is injected to the head.
C18_TagCount ==
    IsSome(tagsIn) =>
        LET o == Get(tagsIn)
        IN  /\ Len(tagsOut) = 1 + (IF WantsSource(o) THEN 1 ELSE 0)
                                + (IF o.mode = "full" /\ o.sizedFiles # None
                                   THEN Len(o.sizedFiles[1]) ELSE 0)
            /\ (o.mode = "minimal" /\ WantsSource(o)) => Len(tagsOut) = 2
            /\ (o.mode = "minimal" /\ o.inputFormat = "png" /\ ~o.sourceEmitted)
                    => Len(tagsOut) = 1
            /\ \A i \in 1..Len(tagsOut) : tagsOut[i].injectTo = "head"

\* C18 witness: full mode, svg input with emitted source and three sized
\* files: five tags
C18_Witness ==
    /\ IsSome(tagsIn)
    /\ Get(tagsIn).mode = "full" /\ WantsSource(Get(tagsIn))
    /\ Get(tagsIn).sizedFiles # None
    /\ Len(tagsOut) = 5

RECURSIVE JoinedSizes(_, _)
\* 'SxS' of the first n sizes, separated by single spaces
JoinedSizes(sizeList, n) ==
    LET dim == ToString(sizeList[n]) \o "x" \o ToString(sizeList[n])
    IN  IF n = 1 THEN dim ELSE JoinedSizes(sizeList, n - 1) \o " " \o dim

\* C19: the first tag buildFaviconTags returns is the combined-ICO link: rel
\* 'icon', type 'image/x-icon', href = base + output, sizes = the configured
\* sizes as 'SxS' joined by single spaces in configured order.
C19_FirstTagIsIco ==
    IsSome(tagsIn) =>
        LET o == Get(tagsIn)
        IN  /\ Len(tagsOut) >= 1
            /\ tagsOut[1].tag = "link"
            /\ tagsOut[1].attrs.rel = "icon"
            /\ tagsOut[1].attrs.type = "image/x-icon"
            /\ tagsOut[1].attrs.href = <<[t |-> "text", s |-> BaseOf(o) \o o.output, v |-> <<>>]>>
            /\ tagsOut[1].attrs.sizes = JoinedSizes(o.sizes, Len(o.sizes))
            /\ o.sizes = <<16, 32, 48>> => tagsOut[1].attrs.sizes = "16x16 32x32 48x48"

\* C19 witness: descending sizes under a non-default base
C19_Witness ==
    /\ IsSome(tagsIn)
    /\ Get(tagsIn).sizes = <<256, 16>>
    /\ Get(tagsIn).base = <<"/repo/">>
    /\ tagsOut[1].attrs.sizes = "256x256 16x16"
    /\ tagsOut[1].attrs.href[1].s = "/repo/favicon.ico"

\* C20: the source tag (type 'image/svg+xml', href = base + source name,
\* sizes 'any') is the second tag if and only if the input format is svg and
\* the source was emitted; otherwise no such tag appears, in either mode.
C20_SourceTagIffSvgEmitted ==
    IsSome(tagsIn) =>
        LET o == Get(tagsIn)
            IsSourceTag(t) ==
                /\ t.attrs.type = "image/svg+xml"
                /\ t.attrs.href = <<[t |-> "text", s |-> BaseOf(o) \o o.sourceName, v |-> <<>>]>>
                /\ t.attrs.sizes = "any"
        IN  IF WantsSource(o)
            THEN Len(tagsOut) >= 2 /\ IsSourceTag(tagsOut[2])
            ELSE \A i \in 1..Len(tagsOut) :
                    tagsOut[i].attrs.type # "image/svg+xml" /\ tagsOut[i].attrs.sizes # "any"

\* C20 witness: a source tag in full mode, ahead of the per-size tags
C20_Witness ==
    /\ IsSome(tagsIn)
    /\ Get(tagsIn).mode = "full"
    /\ Len(tagsOut) = 3
    /\ tagsOut[2].attrs.type = "image/svg+xml"
    /\ tagsOut[3].attrs.type = "image/png"

\* the link elements among the tags a request returned
LinkTags(p) == {k \in 1..Len(p.tags) : p.tags[k].tag = "link"}
\* the document has a link that either strategy would act on
HasPlainIconLink(doc) ==
    \E k \in 1..Len(doc) : IconLinkMatches(doc[k]) /\ InjectIconLinkMatches(doc[k])
\* some v parameter of the href holds the token
CarriesToken(href, token) ==
    \E k \in 1..Len(href) : href[k].t = "param" /\ href[k].s = "v" /\ href[k].v = token

\* strategy (a) was applied: the links whose rel contains 'icon' (rel ahead
\* of href) are in place with the token appended, the rest is untouched
Rewrote(p, token) ==
    /\ Len(p.html) = Len(p.doc)
    /\ \A k \in 1..Len(p.doc) :
        IF p.doc[k].tag = "link" /\ p.doc[k].relFirst
           /\ Contains(LowerAll(p.doc[k].rel), IconChars)
        THEN /\ p.html[k].href # p.doc[k].href
             /\ CarriesToken(p.html[k].href, token)
        ELSE p.html[k] = p.doc[k]
\* strategy (b) was applied: no exact icon link is left and link tags are returned
Injected(p) ==
    /\ \A k \in 1..Len(p.html) : ~InjectIconLinkMatches(p.html[k])
    /\ LinkTags(p) # {}

\* C16 as stated: for every dev configuration, an HTML document request
\* applies exactly one of (a) rewriting the existing icon links' hrefs with
\* the cache token and (b) stripping them and inserting fresh favicon tags.
C16_ExactlyOneStrategy ==
    [][(page' # page /\ opts.command = "serve" /\ HasPlainIconLink(Get(page').doc)) =>
        /\ Rewrote(Get(page'), cacheId) \/ Injected(Get(page'))
        /\ ~(Rewrote(Get(page'), cacheId) /\ Injected(Get(page')))]_vars

\* C16 amended: with dev.injection 'transform' exactly one of the two
\* strategies is applied, (b) when emit.inject is set and (a) when it is
\* not; with dev.injection 'shim' neither is: the document is returned as
\* it came and one module script is the only tag.
C16_ExactlyOneStrategyInTransformMode ==
    [][(page' # page /\ opts.command = "serve" /\ HasPlainIconLink(Get(page').doc)) =>
        LET p == Get(page')
        IN  IF opts.injection = "transform"
            THEN /\ Injected(p) <=> opts.inject # "false"
                 /\ Rewrote(p, cacheId) <=> opts.inject = "false"
            ELSE /\ ~Injected(p) /\ ~Rewrote(p, cacheId)
                 /\ p.html = p.doc
                 /\ Len(p.tags) = 1 /\ p.tags[1].tag = "script"]_vars

\* C16 witness: a document with an icon link was requested under the
\* injecting transform configuration, after a source change
C16_Witness ==
    /\ IsSome(page)
    /\ opts.command = "serve"
    /\ opts.injection = "transform" /\ opts.inject = "full"
    /\ HasPlainIconLink(Get(page).doc)
    /\ Len(Get(page).html) < Len(Get(page).doc)
    /\ sent # <<>>

\* C17: every favicon href a dev HTML document request produces (a rewritten
\* existing link, a returned link tag, a link of the list the shim script
\* installs) carries the current cacheId as a v query parameter.
C17_ProducedHrefsCarryToken ==
    [][(page' # page /\ opts.command = "serve") =>
        LET p == Get(page')
        IN  /\ \A k \in 1..Len(p.html) :
                (Len(p.html) = Len(p.doc) /\ p.html[k] # p.doc[k])
                    => CarriesToken(p.html[k].href, cacheId)
            /\ \A k \in 1..Len(p.tags) :
                IF p.tags[k].tag = "link"
                THEN CarriesToken(p.tags[k].attrs.href, cacheId)
                ELSE p.tags[k].children.kind = "shim" =>
                        \A j \in 1..Len(p.tags[k].children.links) :
                            CarriesToken(p.tags[k].children.links[j].href, cacheId)]_vars

\* C21: per-size tags are emitted only in mode 'full': one per entry of
\* sizedFiles, in sizedFiles order, after the ICO and source tags, with type
\* 'image/' + format, sizes 'SxS' and href = base + file name; in mode
\* 'minimal', or when sizedFiles is absent, there is no per-size tag.
C21_PerSizeTagsOnlyInFullMode ==
    IsSome(tagsIn) =>
        LET o == Get(tagsIn)
            lead == 1 + (IF WantsSource(o) THEN 1 ELSE 0)
        IN  IF o.mode = "full" /\ o.sizedFiles # None
            THEN /\ Len(tagsOut) = lead + Len(o.sizedFiles[1])
                 /\ \A j \in 1..Len(o.sizedFiles[1]) :
                        LET file == o.sizedFiles[1][j]
                            t == tagsOut[lead + j]
                        IN  /\ t.tag = "link" /\ t.attrs.rel = "icon"
                            /\ t.attrs.type = (IF file.format = "png" THEN "image/png"
                                               ELSE "image/x-icon")
                            /\ t.attrs.sizes = ToString(file.size) \o "x" \o ToString(file.size)
                            /\ t.attrs.href = <<[t |-> "text", s |-> BaseOf(o) \o file.name,
                                                 v |-> <<>>]>>
            ELSE Len(tagsOut) = lead

\* C21 witness: three sized files of two formats and two sizes, in full mode
C21_Witness ==
    /\ IsSome(tagsIn)
    /\ Get(tagsIn).mode = "full"
    /\ Get(tagsIn).sizedFiles # None
    /\ Len(tagsOut) = 4
    /\ tagsOut[3].attrs.type = "image/x-icon"
    /\ tagsOut[4].attrs.sizes = "32x32"

\* C22: INJECT_ICON_LINK_RE matches a link element exactly when its rel
\* value, written in single or double quotes, is 'icon' or 'shortcut icon'
\* in any letter case; it matches no link whose rel is 'apple-touch-icon' or
\* 'stylesheet'.
C22_StripMatcherIsExact ==
    IsSome(callIn) =>
        LET e == Get(callIn)
        IN  /\ Get(callOut) <=> /\ e.tag = "link"
                                /\ e.quote \in {"\"", "'"}
                                /\ e.rel \in ExactIconRels
            /\ (e.rel \in {AppleTouchChars, StylesheetChars}) => ~Get(callOut)

\* C22 witness: a single-quoted, upper-case 'SHORTCUT ICON' link with its
\* href ahead of its rel was matched
C22_Witness ==
    /\ IsSome(callIn)
    /\ Get(callIn).quote = "'"
    /\ Get(callIn).rel = UpperAll(ShortcutChars \o <<" ">> \o IconChars)
    /\ ~Get(callIn).relFirst
    /\ Get(callOut)

\* auto-injection is active: emit.inject is set, in a build or in dev
\* transform mode
InjectionActive ==
    opts.inject # "false" /\ (opts.command = "build" \/ opts.injection = "transform")
\* the elements of a document that are apple-touch-icon links
AppleTouchLinks(doc) == SelectSeq(doc, LAMBDA e : LowerAll(e.rel) = AppleTouchChars)

C24_EveryIconLinkIsCacheBusted ==
    [][(page' # page /\ opts.command = "serve" /\ opts.injection = "transform"
            /\ opts.inject = "false") =>
        LET p == Get(page')
            HasQuery(href) == \E j \in 1..Len(href) : href[j].s = "?"
            Busted(href) ==
                href \o <<[t |-> "sep", s |-> IF HasQuery(href) THEN "&" ELSE "?", v |-> <<>>],
                          [t |-> "param", s |-> "v", v |-> cacheId]>>
        IN  /\ Len(p.html) = Len(p.doc)
            /\ \A k \in 1..Len(p.doc) :
                IF p.doc[k].tag = "link" /\ Contains(LowerAll(p.doc[k].rel), IconChars)
                THEN p.html[k] = [p.doc[k] EXCEPT !.href = Busted(p.doc[k].href)]
                ELSE p.html[k] = p.doc[k]]_vars

\* C25: configResolved throws if and only if the input is empty, its
\* extension is unsupported, the size list is empty, some size is not an
\* integer or lies outside 1..256, or emit.sizes, emit.inject or
\* dev.injection is a string outside its allowed set; the empty input is
\* reported as 'must be a non-empty string'; a valid configuration is accepted
\* and its input is resolved to an absolute path.
C25_ConfigResolvedThrowsIff ==
    IsSome(callOut) =>
        LET raw == Get(callIn).raw
            res == Get(callOut)
            sizeList == IF raw.sizes = None
                        THEN <<[whole |-> 16, tenths |-> 0], [whole |-> 32, tenths |-> 0],
                               [whole |-> 48, tenths |-> 0]>>
                        ELSE raw.sizes[1]
            inputEmpty == raw.input.dir = <<>> /\ raw.input.stem = "" /\ raw.input.ext = <<>>
            badExtension == \A e \in SUPPORTED_EXTENSIONS : LowerAll(raw.input.ext) # e
            noSizes == Len(sizeList) = 0
            badSize == \E k \in 1..Len(sizeList) :
                            sizeList[k].tenths # 0 \/ sizeList[k].whole \notin 1..256
            badString(value, allowed) == value.type = "string" /\ value.s \notin allowed
            badEnum == \/ badString(raw.emitSizes, {"png", "ico", "both"})
                       \/ badString(raw.inject, {"minimal", "full"})
                       \/ badString(raw.dev.injection, {"transform", "shim"})
        IN  /\ res.threw <=> (inputEmpty \/ badExtension \/ noSizes \/ badSize \/ badEnum)
            /\ inputEmpty => res.message = "[svg-to-ico] 'input' must be a non-empty string"
            /\ ~res.threw =>
                /\ Get(res.resolvedInput).abs
                /\ Get(res.resolvedInput).stem = raw.input.stem
                /\ Get(res.resolvedInput).ext = raw.input.ext
                /\ Get(res.resolvedInput).dir =
                        (IF raw.input.abs THEN raw.input.dir ELSE <<"root">> \o raw.input.dir)
            /\ (~inputEmpty /\ ~badExtension /\ ~badEnum
                    /\ raw.sizes = <<<<[whole |-> 16, tenths |-> 0], [whole |-> 32, tenths |-> 0],
                                       [whole |-> 256, tenths |-> 0]>>>>)
                    => ~res.threw

\* C25 witness: sizes [16, 32, 256] with a relative .PNG input and a dev
\* object were accepted, the input resolved against the root
C25_Witness ==
    /\ IsSome(callOut)
    /\ Get(callIn).raw.sizes = Some(<<Whole(16), Whole(32), Whole(256)>>)
    /\ Get(callIn).raw.input = Path(FALSE, <<"src">>, "icon", <<".", "P", "N", "G">>)
    /\ Get(callIn).raw.dev.type = "object"
    /\ ~Get(callOut).threw
    /\ Get(Get(callOut).resolvedInput).dir = <<"root", "src">>

\* C26: for every supported input extension in any letter case the source
\* MIME type is 'image/svg+xml' for .svg and .svgz and 'image/<format>'
\* otherwise, jpg read as jpeg and tif as tiff; 'image/jpg' and 'image/tif'
\* are never produced.
C26_SourceMimeType ==
    IsSome(callIn) =>
        LET ext == LowerAll(Get(callIn).raw.input.ext)
            mime == Get(callIn).sourceMimeType
        IN  /\ ext \in {<<".", "s", "v", "g">>, <<".", "s", "v", "g", "z">>}
                    => mime = "image/svg+xml"
            /\ ext = <<".", "p", "n", "g">> => mime = "image/png"
            /\ ext \in {<<".", "j", "p", "g">>, <<".", "j", "p", "e", "g">>}
                    => mime = "image/jpeg"
            /\ ext = <<".", "w", "e", "b", "p">> => mime = "image/webp"
            /\ ext = <<".", "g", "i", "f">> => mime = "image/gif"
            /\ ext = <<".", "a", "v", "i", "f">> => mime = "image/avif"
            /\ ext \in {<<".", "t", "i", "f">>, <<".", "t", "i", "f", "f">>}
                    => mime = "image/tiff"
            /\ mime \notin {"image/jpg", "image/tif"}

\* C26 witness: an input named icon.jPg got the type image/jpeg
C26_Witness ==
    /\ IsSome(callIn)
    /\ Get(callIn).raw.input.ext = <<".", "j", "P", "g">>
    /\ Get(callIn).sourceMimeType = "image/jpeg"

\* C27: generateSizedPngs returns exactly one raster per configured size,
\* result[i].size = sizes[i] for every i, whatever the order in which the
\* concurrently started encodes complete, and only after all have finished.
C27_ResultKeepsSizeOrder ==
    /\ IsSome(gen.result) <=> gen.pc = "returned"
    /\ gen.pc = "returned" =>
        LET o == Get(gen.opts)
            result == Get(gen.result)
        IN  /\ Len(result) = Len(o.sizes)
            /\ \A k \in 1..Len(o.sizes) : result[k].size = o.sizes[k]
            /\ result = SizedPngs(gen.content, o.sizes)
            /\ Len(gen.order) = Len(o.sizes)
            /\ \A k \in 1..Len(o.sizes) : \E j \in 1..Len(gen.order) : gen.order[j] = k

\* C27 witness: three encodes completed last size first, then the call returned
C27_Witness ==
    /\ gen.pc = "returned"
    /\ Get(gen.opts).sizes = <<32, 16, 48>>
    /\ gen.order = <<3, 1, 2>>

\* C28: the PNG options of every encode are compressionLevel 9 with adaptive
\* filtering when optimize is true and 6 without it when false, except that
\* each key present in the png overrides has the override's value; the resize
\* options are fit 'contain' and a fully transparent background overlaid by
\* the resize overrides; width and height are the size.
C28_EncodeOptions ==
    \A k \in 1..Len(gen.calls) :
        LET o == Get(gen.opts)
            call == gen.calls[k]
        IN  /\ call.width = o.sizes[k] /\ call.height = o.sizes[k]
            /\ call.png.compressionLevel =
                    (IF o.png.compressionLevel # None THEN o.png.compressionLevel[1]
                     ELSE IF o.optimize THEN 9 ELSE 6)
            /\ call.png.adaptiveFiltering =
                    (IF o.png.adaptiveFiltering # None THEN o.png.adaptiveFiltering[1]
                     ELSE o.optimize)
            /\ call.png.palette = o.png.palette
            /\ call.resize.fit = (IF o.resize.fit # None THEN o.resize.fit[1] ELSE "contain")
            /\ call.resize.background =
                    (IF o.resize.background # None THEN o.resize.background[1]
                     ELSE [r |-> 0, g |-> 0, b |-> 0, alpha |-> 0])
            /\ call.resize.kernel = o.resize.kernel

\* C28 witness: optimize is on, compressionLevel is overridden to 3 and the
\* kernel is given; the encodes were started with level 3 and adaptive filtering
C28_Witness ==
    /\ Len(gen.calls) = 2
    /\ Get(gen.opts).optimize
    /\ Get(gen.opts).png.compressionLevel = Some(3)
    /\ Get(gen.opts).resize.kernel = Some("nearest")
    /\ gen.calls[2].png.compressionLevel = 3
    /\ gen.calls[2].png.adaptiveFiltering

\* the file names of a sequence of emitted assets
FileNames(assets) == {assets[k].fileName : k \in 1..Len(assets)}
RawEmitsPng == opts.emitSizes \in {"true", "png", "both"}
RawEmitsIco == opts.emitSizes \in {"ico", "both"}
ExpectedFileNames ==
    {"favicon.ico"}
    \cup (IF opts.source THEN {"icon.svg"} ELSE {})
    \cup (IF RawEmitsPng
          THEN {"favicon-" \o ToString(opts.sizes[k]) \o "x" \o ToString(opts.sizes[k]) \o ".png" :
                    k \in 1..Len(opts.sizes)}
          ELSE {})
    \cup (IF RawEmitsIco
          THEN {"favicon-" \o ToString(opts.sizes[k]) \o "x" \o ToString(opts.sizes[k]) \o ".ico" :
                    k \in 1..Len(opts.sizes)}
          ELSE {})

\* C29: a build that succeeded emitted exactly: the combined ICO under the
\* output name, the source under its name iff source emission is on, and for
\* each size S <stem>-SxS.png iff emit.sizes is true, 'png' or 'both' and the
\* single-entry <stem>-SxS.ico iff it is 'ico' or 'both'; each file once, and
\* no per-size file when emit.sizes is false.
C29_BuildEmitsExactlyTheConfiguredAssets ==
    build.pc = "done" =>
        /\ FileNames(build.emitted) = ExpectedFileNames
        /\ Len(build.emitted) = Cardinality(ExpectedFileNames)
        /\ \A k \in 1..Len(build.emitted) : build.emitted[k].type = "asset"
        /\ \A k \in 1..Len(opts.sizes), j \in 1..Len(build.emitted) :
                build.emitted[j].fileName =
                    "favicon-" \o ToString(opts.sizes[k]) \o "x" \o ToString(opts.sizes[k]) \o ".ico"
                => /\ Len(build.emitted[j].source) >= 22
                   /\ build.emitted[j].source[5] = 1 /\ build.emitted[j].source[6] = 0
        /\ opts.emitSizes = "false" => Len(build.emitted) = (IF opts.source THEN 2 ELSE 1)

\* C29 witness: emit.sizes true with the source and two sizes has emitted the
\* combined ICO, the source and the two PNG files
C29_Witness ==
    /\ build.pc = "done"
    /\ opts.emitSizes = "true" /\ opts.source /\ Len(opts.sizes) = 2
    /\ Len(build.emitted) = 4

\* the plugins of the instance
plugins == PluginNames(opts.enabled)
HmrOff == opts.dev.type = "object" /\ opts.dev.hmr = <<FALSE>>
DevOff ==
    \/ opts.dev.type = "boolean" /\ ~opts.dev.b
    \/ opts.dev.type = "object" /\ opts.dev.enabled = <<FALSE>>
\* an injected tag that listens for the update event, directly or in the shim
HasHmrListener(tag) ==
    /\ tag.tag = "script"
    /\ \/ tag.children.kind = "hmr-client"
       \/ tag.children.kind = "shim" /\ tag.children.listener # <<>>

\* C30: with dev.hmr false no 'svg-to-ico:update' message is ever sent,
\* whatever files change, and no tag the serve transform returns (the HMR
\* script of transform mode, the shim script of shim mode) holds the update
\* listener; with dev false or dev.enabled false the plugins are config then
\* build and no serve hook ever acts; with dev left out they are config,
\* serve, build.
C30_HmrAndDevSwitches ==
    /\ HmrOff =>
        /\ sent = <<>>
        /\ (opts.command = "serve" /\ page # <<>>)
            => \A k \in 1..Len(page[1].tags) : ~HasHmrListener(page[1].tags[k])
    /\ DevOff =>
        /\ plugins = <<"svg-to-ico:config", "svg-to-ico:build">>
        /\ opts.command = "serve" => (page = <<>> /\ tasks = <<>> /\ sent = <<>>)
    /\ opts.dev.type = "undefined" =>
        plugins = <<"svg-to-ico:config", "svg-to-ico:serve", "svg-to-ico:build">>

\* C30 witness: dev is { hmr: false }; the input file has changed and the
\* serve transform has then returned its tags, none of them being a script
C30_Witness ==
    /\ HmrOff /\ opts.enabled /\ opts.command = "serve"
    /\ opts.injection = "transform" /\ opts.inject = "full"
    /\ sourceFile > 0
    /\ page # <<>>
    /\ Len(page[1].tags) > 0
    /\ sent = <<>>

\* C31: with per-size emission configured, every reachable state of the
\* serving cache is EMPTY (no combined ICO, no per-size list) or POPULATED
\* (both): never one of the two present and the other absent.
C31_CacheIsEmptyOrPopulated ==
    (opts.command = "serve" /\ opts.emitSizes # "false")
    => \/ generatedIco = <<>> /\ generatedPngs = <<>>
       \/ generatedIco # <<>> /\ generatedPngs # <<>>

\* C32: whenever the update message for a change of the input file is sent,
\* the regeneration that change started has completed, its combined ICO and
\* (if configured) per-size rasters are in the cache and the token of the
\* message is the one just minted; and once the message for the current
\* content has been sent, the cache holds no artifact of the content before
\* the change, so a client that fetches again is not served one.
C32_SignalFollowsStore ==
    /\ [][sent' # sent =>
            \E i \in TaskIds :
                /\ IsChange(tasks[i]) /\ tasks[i].pc = "encoding" /\ tasks'[i].pc = "done"
                /\ generatedIco' = Some(packIco(SizedPngs(tasks[i].content, sizes)))
                /\ emitSizes => generatedPngs' = Some(SizedPngs(tasks[i].content, sizes))
                /\ sent'[Len(sent')].data.cacheId = cacheId']_vars
    /\ []((\E i \in TaskIds : /\ IsChange(tasks[i]) /\ tasks[i].resp.status = "fulfilled"
                              /\ tasks[i].content = sourceFile)
          => /\ generatedIco # <<>> => generatedIco[1] = packIco(FreshPngs)
             /\ generatedPngs # <<>> => generatedPngs[1] = FreshPngs)

\* C33: a change notification whose path is not the input resolved against
\* the project root ('/root/src/icon.svg'; the configured string
\* 'src/icon.svg' is such a path) leaves the combined ICO, the per-size list
\* and the cacheId as they are, starts no generation and sends no message.
C33_OtherFileChangeIsIgnored ==
    /\ [][(Len(tasks') = Len(tasks) + 1 /\ tasks'[Len(tasks')].kind = "hmr"
           /\ tasks'[Len(tasks')].file # "/root/src/icon.svg")
          => /\ generatedIco' = generatedIco /\ generatedPngs' = generatedPngs
             /\ cacheId' = cacheId /\ sent' = sent /\ sourceFile' = sourceFile
             /\ ~tasks'[Len(tasks')].ran
             /\ tasks'[Len(tasks')].pc = "done"
             /\ tasks'[Len(tasks')].resp.status = "fulfilled"]_vars
    /\ [](/\ \A i \in TaskIds :
                (tasks[i].kind = "hmr" /\ tasks[i].file # "/root/src/icon.svg")
                => ~tasks[i].ran /\ tasks[i].pc = "done"
          /\ Len(sent) <= Cardinality({i \in TaskIds :
                    tasks[i].kind = "hmr" /\ tasks[i].file = "/root/src/icon.svg"}))

\* C33 witness: with the cache populated by a request, a change of the path
\* 'src/icon.svg' was notified and nothing was sent
C33_Witness ==
    /\ Len(tasks) = 2
    /\ tasks[1].kind = "ico" /\ tasks[1].resp.status = "ok"
    /\ tasks[2].kind = "hmr" /\ tasks[2].file = "src/icon.svg" /\ tasks[2].pc = "done"
    /\ generatedIco # <<>>
    /\ sent = <<>>

\* C34: with per-size emission configured, when a request for the combined
\* ICO has populated the cache, the per-size list of that same generation is
\* stored with it; a per-size request that arrives after such a request was
\* answered is answered from the cache and starts no generation.
C34_IcoFallbackFillsPerSizeCache ==
    [][opts.emitSizes # "false" =>
        /\ \A i \in TaskIds :
            (tasks[i].kind = "ico" /\ tasks[i].resp.status = "pending"
             /\ tasks'[i].resp.status = "ok")
            => /\ generatedPngs' = <<SizedPngs(tasks[i].content, opts.sizes)>>
               /\ generatedIco' = <<packIco(SizedPngs(tasks[i].content, opts.sizes))>>
        /\ (/\ Len(tasks') = Len(tasks) + 1
            /\ tasks'[Len(tasks')].kind \in {"png", "sized-ico"}
            /\ \E i \in TaskIds : tasks[i].kind = "ico" /\ tasks[i].ran
                                  /\ tasks[i].resp.status = "ok")
           => /\ ~tasks'[Len(tasks')].ran
              /\ tasks'[Len(tasks')].resp.status = "ok"]_vars

\* C34 witness: GET /favicon.ico populated the empty cache, the per-size
\* request after it was answered without a generation
C34_Witness ==
    /\ Len(tasks) = 2
    /\ tasks[1].kind = "ico" /\ tasks[1].ran /\ tasks[1].resp.status = "ok"
    /\ tasks[2].kind = "png" /\ ~tasks[2].ran /\ tasks[2].resp.status = "ok"

\* C35: a per-size request for size S is answered with the cached raster of
\* size S: the PNG endpoint with that raster's buffer as it is and type
\* image/png, the ICO endpoint with type image/x-icon and an ICO of one entry
\* (count 1, width and height byte S, 0 for 256) whose payload is that
\* buffer; PNG endpoints exist only with emit.sizes 'png' or 'both' and ICO
\* endpoints only with 'ico' or 'both'.
C35_PerSizeEndpointServesItsRaster ==
    /\ [][\A i \in 1..Len(tasks') :
            (/\ tasks'[i].kind \in {"png", "sized-ico"}
             /\ tasks'[i].resp.status = "ok"
             /\ (i > Len(tasks) \/ tasks[i].resp.status = "pending"))
            => \E k \in 1..Len(generatedPngs'[1]) :
                LET raster == generatedPngs'[1][k]
                    S == tasks'[i].size
                    body == tasks'[i].resp.body
                IN  /\ raster.size = S
                    /\ IF tasks'[i].kind = "png"
                       THEN /\ tasks'[i].resp.ctype = "image/png"
                            /\ body = raster.buffer
                       ELSE /\ tasks'[i].resp.ctype = "image/x-icon"
                            /\ Len(body) = 22 + Len(raster.buffer)
                            /\ body[5] = 1 /\ body[6] = 0
                            /\ body[7] = (IF S = 256 THEN 0 ELSE S)
                            /\ body[8] = (IF S = 256 THEN 0 ELSE S)
                            /\ SubSeq(body, 23, Len(body)) = raster.buffer]_vars
    /\ [](\A i \in TaskIds :
            /\ tasks[i].kind = "png" => opts.emitSizes \in {"true", "png", "both"}
            /\ tasks[i].kind = "sized-ico" => opts.emitSizes \in {"ico", "both"})

\* C35 witness: the 256-pixel single-entry ICO was generated and served, then
\* the 16-pixel PNG was served from the cache
C35_Witness ==
    /\ Len(tasks) = 2
    /\ tasks[1].kind = "sized-ico" /\ tasks[1].size = 256 /\ tasks[1].resp.status = "ok"
    /\ tasks[1].resp.body[7] = 0
    /\ tasks[2].kind = "png" /\ tasks[2].size = 16 /\ tasks[2].resp.status = "ok"

C37_FailedRegenerationKeepsCache ==
    /\ [][\A i \in TaskIds :
            (/\ tasks[i].kind = "hmr" /\ tasks[i].file = "/root/src/icon.svg"
             /\ tasks[i].pc \in {"reading", "encoding"}
             /\ tasks'[i].resp.status = "rejected")
            => /\ generatedIco' = generatedIco
               /\ generatedPngs' = generatedPngs
               /\ cacheId' = cacheId
               /\ sent' = sent]_vars
    /\ [](Len(sent) <= Cardinality({i \in TaskIds :
                /\ tasks[i].kind = "hmr" /\ tasks[i].file = "/root/src/icon.svg"
                /\ tasks[i].resp.status # "rejected"}))

\* C37 witness: buildStart populated the cache, then a regeneration failed:
\* the artifacts of the old content are still cached and nothing was sent
C37_Witness ==
    /\ Len(tasks) = 2
    /\ tasks[1].kind = "buildStart" /\ tasks[1].resp.status = "fulfilled"
    /\ tasks[2].kind = "hmr" /\ tasks[2].resp.status = "rejected"
    /\ generatedIco = <<packIco(SizedPngs(0, opts.sizes))>>
    /\ sourceFile = 1
    /\ sent = <<>>

\* C38: in every reachable state in which the combined ICO and the per-size
\* list are both cached, the combined ICO is packIco of the cached list.
C38_CachesAreOfOneGeneration ==
    (generatedIco # <<>> /\ generatedPngs # <<>>)
    => generatedIco[1] = packIco(generatedPngs[1])

\* C39: once the combined ICO is cached it is never absent again; a change of
\* the input file replaces it only in the step in which its regeneration
\* succeeds; a request for the combined ICO that arrives while a regeneration
\* is in flight is answered at once with the cached artifact and starts no
\* generation.
C39_CachedIcoIsNeverReset ==
    [][/\ generatedIco # <<>> => generatedIco' # <<>>
       /\ (generatedIco # <<>> /\ generatedIco' # generatedIco)
          => \E i \in TaskIds :
                /\ tasks[i].pc = "encoding" /\ tasks'[i].pc = "done"
                /\ tasks'[i].resp.status \in {"ok", "fulfilled"}
                /\ generatedIco' = <<packIco(SizedPngs(tasks[i].content, opts.sizes))>>
       /\ (/\ Len(tasks') = Len(tasks) + 1
           /\ tasks'[Len(tasks')].kind = "ico"
           /\ generatedIco # <<>>
           /\ \E i \in TaskIds : tasks[i].kind = "hmr"
                                 /\ tasks[i].pc \in {"reading", "encoding"})
          => /\ ~tasks'[Len(tasks')].ran
             /\ tasks'[Len(tasks')].resp.status = "ok"
             /\ tasks'[Len(tasks')].resp.body = generatedIco[1]
             /\ generatedIco' = generatedIco]_vars

\* C39 witness: with the combined ICO cached by the server start, the input
\* file changed; GET /favicon.ico arrived while the regeneration was in
\* flight and was answered with the artifact of the old content
C39_Witness ==
    /\ Len(tasks) = 2
    /\ tasks[1].kind = "hmr" /\ tasks[1].pc \in {"reading", "encoding"}
    /\ tasks[2].kind = "ico" /\ ~tasks[2].ran /\ tasks[2].resp.status = "ok"
    /\ tasks[2].resp.body = packIco(SizedPngs(0, opts.sizes))
    /\ sourceFile = 1
    /\ generatedIco = <<packIco(SizedPngs(0, opts.sizes))>>

\* C40: in shim dev mode the document is returned as it came and exactly one
\* module script is returned with it; whatever the configuration, the link
\* list embedded in that script holds the combined-ICO link, so the script
\* that removes the page's icon links installs a replacement.
C40_ShimInstallsTheIcoLink ==
    [][(page' # page /\ opts.command = "serve" /\ opts.injection = "shim") =>
        LET p == page'[1]
        IN  /\ p.html = p.doc
            /\ Len(p.tags) = 1
            /\ p.tags[1].tag = "script" /\ p.tags[1].attrs.type = "module"
            /\ p.tags[1].children.kind = "shim"
            /\ p.tags[1].children.removes # {}
            /\ \E k \in 1..Len(p.tags[1].children.links) :
                /\ p.tags[1].children.links[k].rel = "icon"
                /\ p.tags[1].children.links[k].href[1]
                        = [t |-> "text", s |-> "/favicon.ico", v |-> <<>>]]_vars

====
